---------------------------- MODULE Spec2Model ----------------------------
(***************************************************************************)
(* A model of the deko3d renderer core of nanovg-deko3d                    *)
(* (src/source/dk_renderer.cpp, declarations in src/unnamed/part_000).     *)
(*                                                                         *)
(* The renderer is single-threaded: CreateTexture, DeleteTexture and Flush *)
(* are synchronous calls.  Flush is split at its blocking points (the      *)
(* queue.waitIdle() after every call's submission), and the GPU queue is a *)
(* second process that retires submitted command lists.                    *)
(*                                                                         *)
(* The per-frame arrays (calls, paths, verts, uniforms) are owned and      *)
(* filled by the geometry producer; the renderer only reads them.  The     *)
(* model keeps their counters in ctx and draws each element at the moment  *)
(* Flush reads it.                                                         *)
(***************************************************************************)
EXTENDS Integers, Sequences, FiniteSets

(***************************************************************************)
(* Bounds of the model.                                                    *)
(***************************************************************************)
\* Number of descriptor slots.  The program's DkRenderer::MaxImages is
\* 0x1000 (src/unnamed/part_000:163); the model scales it down.
MaxImages == 2
\* CreateTexture is enabled while nextTextureId <= MaxTextureId.
MaxTextureId == 4
\* Capacity of the producer's call array (ctx.ccalls).
MaxCalls == 2

(***************************************************************************)
(* Program constants.                                                      *)
(***************************************************************************)
NVG_ANTIALIAS == 1
NVG_STENCIL_STROKES == 2

DKNVG_NONE == 0
DKNVG_FILL == 1
DKNVG_CONVEXFILL == 2
DKNVG_STROKE == 3
DKNVG_TRIANGLES == 4

NVG_TEXTURE_ALPHA == 1
NVG_TEXTURE_RGBA == 2

NVG_IMAGE_GENERATE_MIPMAPS == 1
NVG_IMAGE_REPEATX == 2
NVG_IMAGE_REPEATY == 4
NVG_IMAGE_NEAREST == 32

SamplerType_MipFilter == 1
SamplerType_Nearest == 2
SamplerType_RepeatX == 4
SamplerType_RepeatY == 8

\* sizeof(DKNVGfragUniforms): 42 floats and 2 ints.
SizeofFragUniforms == 176
\* sizeof(NVGvertex): x, y, u, v.
SizeofNVGvertex == 16

FragmentUniformSize == SizeofFragUniforms + 4 - (SizeofFragUniforms % 4)

\* sizeof(FragmentUniformSize): the size of the unsigned int that holds it.
SizeofFragmentUniformSize == 4
\* The size the constructor requests for fragUniformBuffer from dataMemPool.
FragUniformBufferRequested == SizeofFragmentUniformSize

\* flags & bit, for a single-bit mask.
HasFlag(flags, bit) == (flags \div bit) % 2 = 1

(***************************************************************************)
(* GPU commands recorded into dynCmdBuf.                                   *)
(***************************************************************************)
\* dk::DepthStencilState{}: stencil test off, every op Keep, compare Always.
DefaultDepthStencilState ==
    [stencilTestEnable |-> FALSE,
     frontCompareOp |-> "Always", frontFailOp |-> "Keep",
     frontDepthFailOp |-> "Keep", frontPassOp |-> "Keep",
     backCompareOp |-> "Always", backFailOp |-> "Keep",
     backDepthFailOp |-> "Keep", backPassOp |-> "Keep"]

CmdDraw(prim, count, first) ==
    [op |-> "draw", prim |-> prim, count |-> count, first |-> first]

CmdBindDepthStencilState(s) == [op |-> "bindDepthStencilState", state |-> s]

CmdSetStencil(face) ==
    [op |-> "setStencil", face |-> face, mask |-> 255, ref |-> 0, writeMask |-> 255]

CmdBindColorWriteState(mask) == [op |-> "bindColorWriteState", mask |-> mask]

CmdBindRasterizerState(cull) == [op |-> "bindRasterizerState", cullMode |-> cull]

(***************************************************************************)
(* Descriptor slot allocator.                                              *)
(***************************************************************************)
Slots == 0 .. MaxImages - 1

\* A variant for testing properties against: the candidate is the last
\* free slot of the scan instead of the first.
RECURSIVE AcquireScanLastFree(_, _, _, _, _)
AcquireScanLastFree(maps, last, image, desc, freeImageDescriptor) ==
    IF desc > last
    THEN [found |-> FALSE, desc |-> freeImageDescriptor]
    ELSE IF maps[desc] = image
         THEN [found |-> TRUE, desc |-> desc]
         ELSE AcquireScanLastFree(maps, last, image, desc + 1,
                                  IF maps[desc] = 0 THEN desc ELSE freeImageDescriptor)

\* The for loop of AcquireImageDescriptor from index desc on.  Returns the
\* slot of the first match, or the free candidate after the whole scan.
RECURSIVE AcquireScan(_, _, _, _, _)
AcquireScan(maps, last, image, desc, freeImageDescriptor) ==
    IF desc > last
    THEN [found |-> FALSE, desc |-> freeImageDescriptor]
    ELSE IF maps[desc] = image
         THEN [found |-> TRUE, desc |-> desc]
         ELSE AcquireScan(maps, last, image, desc + 1,
                          IF maps[desc] = 0 /\ freeImageDescriptor = last + 1
                          THEN desc ELSE freeImageDescriptor)

\* A variant for testing properties against: the descriptor is updated
\* without the barrier that invalidates the descriptor cache.
AcquireImageDescriptorNoBarrier(maps, last, texture, image) ==
    LET scan == AcquireScan(maps, last, image, 0, last + 1)
        freeImageDescriptor == scan.desc
    IN  IF scan.found
        THEN [ret |-> scan.desc, maps |-> maps, last |-> last, cmds |-> <<>>]
        ELSE IF freeImageDescriptor >= MaxImages
        THEN [ret |-> -1, maps |-> maps, last |-> last, cmds |-> <<>>]
        ELSE [ret |-> freeImageDescriptor,
              maps |-> [maps EXCEPT ![freeImageDescriptor] = image],
              last |-> freeImageDescriptor,
              cmds |-> << [op |-> "updateDescriptor",
                           slot |-> freeImageDescriptor,
                           texture |-> texture.id] >>]

\* A variant for testing properties against: the descriptor cache is
\* invalidated even when no slot is free.
AcquireImageDescriptorBarrierOnFailure(maps, last, texture, image) ==
    LET scan == AcquireScan(maps, last, image, 0, last + 1)
        freeImageDescriptor == scan.desc
    IN  IF scan.found
        THEN [ret |-> scan.desc, maps |-> maps, last |-> last, cmds |-> <<>>]
        ELSE IF freeImageDescriptor >= MaxImages
        THEN [ret |-> -1, maps |-> maps, last |-> last,
              cmds |-> << [op |-> "barrier", invalidate |-> "Descriptors"] >>]
        ELSE [ret |-> freeImageDescriptor,
              maps |-> [maps EXCEPT ![freeImageDescriptor] = image],
              last |-> freeImageDescriptor,
              cmds |-> << [op |-> "updateDescriptor",
                           slot |-> freeImageDescriptor,
                           texture |-> texture.id],
                          [op |-> "barrier", invalidate |-> "Descriptors"] >>]

\* A variant for testing properties against: the table is taken to be full
\* one slot too late.
AcquireImageDescriptorPastTheEnd(maps, last, texture, image) ==
    LET scan == AcquireScan(maps, last, image, 0, last + 1)
        freeImageDescriptor == scan.desc
    IN  IF scan.found
        THEN [ret |-> scan.desc, maps |-> maps, last |-> last, cmds |-> <<>>]
        ELSE IF freeImageDescriptor > MaxImages
        THEN [ret |-> -1, maps |-> maps, last |-> last, cmds |-> <<>>]
        ELSE [ret |-> freeImageDescriptor,
              maps |-> [maps EXCEPT ![freeImageDescriptor] = image],
              last |-> freeImageDescriptor,
              cmds |-> << [op |-> "updateDescriptor",
                           slot |-> freeImageDescriptor,
                           texture |-> texture.id],
                          [op |-> "barrier", invalidate |-> "Descriptors"] >>]

\* A variant for testing properties against: a miss maps the slot and
\* records the barrier, but the descriptor is not written.
AcquireImageDescriptorNotUpdating(maps, last, texture, image) ==
    LET scan == AcquireScan(maps, last, image, 0, last + 1)
        freeImageDescriptor == scan.desc
    IN  IF scan.found
        THEN [ret |-> scan.desc, maps |-> maps, last |-> last, cmds |-> <<>>]
        ELSE IF freeImageDescriptor >= MaxImages
        THEN [ret |-> -1, maps |-> maps, last |-> last, cmds |-> <<>>]
        ELSE [ret |-> freeImageDescriptor,
              maps |-> [maps EXCEPT ![freeImageDescriptor] = image],
              last |-> freeImageDescriptor,
              cmds |-> << [op |-> "barrier", invalidate |-> "Descriptors"] >>]

\* int AcquireImageDescriptor(texture, image).  The result carries the
\* return value, the new mapping table and mark, and the recorded commands.
AcquireImageDescriptor(maps, last, texture, image) ==
    LET scan == AcquireScan(maps, last, image, 0, last + 1)
        freeImageDescriptor == scan.desc
    IN  IF scan.found
        THEN [ret |-> scan.desc, maps |-> maps, last |-> last, cmds |-> <<>>]
        ELSE IF freeImageDescriptor >= MaxImages
        THEN [ret |-> -1, maps |-> maps, last |-> last, cmds |-> <<>>]
        ELSE [ret |-> freeImageDescriptor,
              maps |-> [maps EXCEPT ![freeImageDescriptor] = image],
              last |-> freeImageDescriptor,
              cmds |-> << [op |-> "updateDescriptor",
                           slot |-> freeImageDescriptor,
                           texture |-> texture.id],
                          [op |-> "barrier", invalidate |-> "Descriptors"] >>]

\* A variant for testing properties against: every slot up to the mark is
\* cleared, whatever it is mapped to.
FreeImageDescriptorAnyImage(maps, last, image) ==
    [desc \in DOMAIN maps |-> IF desc <= last THEN 0 ELSE maps[desc]]

\* A variant for testing properties against: the slots above the mark are
\* cleared too.
FreeImageDescriptorWholeTable(maps, last, image) ==
    [desc \in DOMAIN maps |-> IF maps[desc] = image THEN 0 ELSE maps[desc]]

\* A variant for testing properties against: the scan stops one slot
\* below the mark.
FreeImageDescriptorBelowMark(maps, last, image) ==
    [desc \in DOMAIN maps |->
        IF desc < last /\ maps[desc] = image THEN 0 ELSE maps[desc]]

\* void FreeImageDescriptor(image): clears the slots 0..mark mapped to image.
FreeImageDescriptor(maps, last, image) ==
    [desc \in DOMAIN maps |->
        IF desc <= last /\ maps[desc] = image THEN 0 ELSE maps[desc]]

(***************************************************************************)
(* Texture registry.                                                       *)
(***************************************************************************)
nullptr == [null |-> TRUE]

\* std::shared_ptr<Texture> FindTexture(id): the first texture with the id.
FindTexture(texs, id) ==
    LET m == SelectSeq(texs, LAMBDA t : t.id = id)
    IN  IF m = <<>> THEN nullptr ELSE m[1]

\* A variant for testing properties against: width and height are swapped.
GetTextureDescriptorTransposed(texs, id) ==
    LET m == SelectSeq(texs, LAMBDA t : t.id = id)
    IN  IF m = <<>> THEN nullptr
        ELSE [width |-> m[1].height, height |-> m[1].width,
              type |-> m[1].type, flags |-> m[1].flags]

\* const DKNVGtextureDescriptor *GetTextureDescriptor(ctx, id).
GetTextureDescriptor(texs, id) ==
    LET m == SelectSeq(texs, LAMBDA t : t.id = id)
    IN  IF m = <<>> THEN nullptr
        ELSE [width |-> m[1].width, height |-> m[1].height,
              type |-> m[1].type, flags |-> m[1].flags]

(***************************************************************************)
(* Command recording.  A recording state rs carries what a draw routine    *)
(* reads and writes: the slot table (maps), the mark (last), the commands  *)
(* recorded so far (cmds) and, for observation, the log of the calls made  *)
(* to SetUniforms (acq): the image, whether FindTexture found it, what     *)
(* AcquireImageDescriptor returned (-1 also when it was not called) and    *)
(* whether it recorded a descriptor update.                                *)
(***************************************************************************)
Record(rs, newCmds) == [rs EXCEPT !.cmds = rs.cmds \o newCmds]

\* A variant for testing properties against: the repeat flags are taken
\* for each other.
SamplerIdSwappingRepeats(imageFlags) ==
      (IF HasFlag(imageFlags, NVG_IMAGE_GENERATE_MIPMAPS) THEN SamplerType_MipFilter ELSE 0)
    + (IF HasFlag(imageFlags, NVG_IMAGE_NEAREST) THEN SamplerType_Nearest ELSE 0)
    + (IF HasFlag(imageFlags, NVG_IMAGE_REPEATY) THEN SamplerType_RepeatX ELSE 0)
    + (IF HasFlag(imageFlags, NVG_IMAGE_REPEATX) THEN SamplerType_RepeatY ELSE 0)

\* The sampler selector composed from the texture's image flags.
SamplerId(imageFlags) ==
      (IF HasFlag(imageFlags, NVG_IMAGE_GENERATE_MIPMAPS) THEN SamplerType_MipFilter ELSE 0)
    + (IF HasFlag(imageFlags, NVG_IMAGE_NEAREST) THEN SamplerType_Nearest ELSE 0)
    + (IF HasFlag(imageFlags, NVG_IMAGE_REPEATX) THEN SamplerType_RepeatX ELSE 0)
    + (IF HasFlag(imageFlags, NVG_IMAGE_REPEATY) THEN SamplerType_RepeatY ELSE 0)

\* A variant for testing properties against: the early return on a failed
\* acquisition is missing, so a texture handle is bound for slot -1.
SetUniformsAlwaysBinding(rs, texs, c, offset, image) ==
    LET pushed == Record(rs,
            << [op |-> "pushConstants", buf |-> "fragUniformBuffer",
                size |-> c.fragSize, src |-> offset],
               [op |-> "bindUniformBuffer", stage |-> "Fragment",
                buf |-> "fragUniformBuffer"] >>)
        texture == FindTexture(texs, image)
        a == AcquireImageDescriptor(pushed.maps, pushed.last, texture, image)
        acquired == [maps |-> a.maps, last |-> a.last,
                     cmds |-> pushed.cmds \o a.cmds,
                     acq |-> Append(pushed.acq,
                                    [image |-> image, registered |-> TRUE,
                                     ret |-> a.ret, miss |-> a.cmds # <<>>])]
    IN  IF texture = nullptr
        THEN [pushed EXCEPT !.acq = Append(@, [image |-> image, registered |-> FALSE,
                                               ret |-> -1, miss |-> FALSE])]
        ELSE Record(acquired,
                << [op |-> "bindTextures", stage |-> "Fragment",
                    imageDescId |-> a.ret,
                    samplerId |-> SamplerId(texture.flags)] >>)

\* void SetUniforms(ctx, offset, image).
SetUniforms(rs, texs, c, offset, image) ==
    LET pushed == Record(rs,
            << [op |-> "pushConstants", buf |-> "fragUniformBuffer",
                size |-> c.fragSize, src |-> offset],
               [op |-> "bindUniformBuffer", stage |-> "Fragment",
                buf |-> "fragUniformBuffer"] >>)
        texture == FindTexture(texs, image)
        a == AcquireImageDescriptor(pushed.maps, pushed.last, texture, image)
        acquired == [maps |-> a.maps, last |-> a.last,
                     cmds |-> pushed.cmds \o a.cmds,
                     acq |-> Append(pushed.acq,
                                    [image |-> image, registered |-> TRUE,
                                     ret |-> a.ret, miss |-> a.cmds # <<>>])]
    IN  IF texture = nullptr
        THEN [pushed EXCEPT !.acq = Append(@, [image |-> image, registered |-> FALSE,
                                               ret |-> -1, miss |-> FALSE])]
        ELSE IF a.ret = -1 THEN acquired
        ELSE Record(acquired,
                << [op |-> "bindTextures", stage |-> "Fragment",
                    imageDescId |-> a.ret,
                    samplerId |-> SamplerId(texture.flags)] >>)

\* A variant for testing properties against: every fan is drawn twice.
FillDrawsTwice(call, paths) ==
    [i \in 1 .. 2 * call.pathCount |->
        CmdDraw("TriangleFan", paths[call.pathOffset + ((i - 1) \div 2)].fillCount,
                paths[call.pathOffset + ((i - 1) \div 2)].fillOffset)]

\* The draws of one loop over the call's sub-paths.
FillDraws(call, paths) ==
    [i \in 1 .. call.pathCount |->
        CmdDraw("TriangleFan", paths[call.pathOffset + i - 1].fillCount,
                paths[call.pathOffset + i - 1].fillOffset)]

\* A variant for testing properties against: the stroke ranges are drawn
\* as fans.
StrokeDrawsAsFans(call, paths) ==
    [i \in 1 .. call.pathCount |->
        CmdDraw("TriangleFan", paths[call.pathOffset + i - 1].strokeCount,
                paths[call.pathOffset + i - 1].strokeOffset)]

StrokeDraws(call, paths) ==
    [i \in 1 .. call.pathCount |->
        CmdDraw("TriangleStrip", paths[call.pathOffset + i - 1].strokeCount,
                paths[call.pathOffset + i - 1].strokeOffset)]

\* A variant for testing properties against: the fringe pass is left out
\* although antialiasing is on, and the default state is not restored.
DrawFillWithoutFringe(rs, texs, c, call, paths) ==
    LET ds1 == [DefaultDepthStencilState EXCEPT
                   !.stencilTestEnable = TRUE,
                   !.frontPassOp = "IncrWrap", !.backPassOp = "DecrWrap"]
        ds3 == [ds1 EXCEPT
                   !.frontCompareOp = "NotEqual", !.frontFailOp = "Zero",
                   !.frontDepthFailOp = "Zero", !.frontPassOp = "Zero",
                   !.backCompareOp = "NotEqual", !.backFailOp = "Zero",
                   !.backDepthFailOp = "Zero", !.backPassOp = "Zero"]
        r1 == Record(rs, << CmdSetStencil("FrontAndBack"),
                            CmdBindDepthStencilState(ds1),
                            CmdBindColorWriteState(0) >>)
        r2 == SetUniforms(r1, texs, c, call.uniformOffset, 0)
        r3 == Record(r2, << CmdBindRasterizerState("None") >>
                         \o FillDraws(call, paths)
                         \o << CmdBindColorWriteState(15) >>)
        r4 == SetUniforms(r3, texs, c, call.uniformOffset + c.fragSize, call.image)
    IN  Record(r4, << CmdBindRasterizerState("Back"),
                      CmdBindDepthStencilState(ds3),
                      CmdDraw("TriangleStrip", call.triangleCount, call.triangleOffset) >>)

\* A variant for testing properties against: the stencil pass is drawn with
\* the call's image.
DrawFillTexturedStencil(rs, texs, c, call, paths) ==
    LET ds1 == [DefaultDepthStencilState EXCEPT
                   !.stencilTestEnable = TRUE,
                   !.frontCompareOp = "Always", !.frontFailOp = "Keep",
                   !.frontDepthFailOp = "Keep", !.frontPassOp = "IncrWrap",
                   !.backCompareOp = "Always", !.backFailOp = "Keep",
                   !.backDepthFailOp = "Keep", !.backPassOp = "DecrWrap"]
        ds2 == [ds1 EXCEPT
                   !.frontCompareOp = "Equal", !.frontFailOp = "Keep",
                   !.frontDepthFailOp = "Keep", !.frontPassOp = "Keep",
                   !.backCompareOp = "Equal", !.backFailOp = "Keep",
                   !.backDepthFailOp = "Keep", !.backPassOp = "Keep"]
        aa == HasFlag(c.flags, NVG_ANTIALIAS)
        ds3 == [(IF aa THEN ds2 ELSE ds1) EXCEPT
                   !.frontCompareOp = "NotEqual", !.frontFailOp = "Zero",
                   !.frontDepthFailOp = "Zero", !.frontPassOp = "Zero",
                   !.backCompareOp = "NotEqual", !.backFailOp = "Zero",
                   !.backDepthFailOp = "Zero", !.backPassOp = "Zero"]
        r1 == Record(rs, << CmdSetStencil("FrontAndBack"),
                            CmdBindDepthStencilState(ds1),
                            CmdBindColorWriteState(0) >>)
        r2 == SetUniforms(r1, texs, c, call.uniformOffset, call.image)
        r3 == Record(r2, << CmdBindRasterizerState("None") >>
                         \o FillDraws(call, paths)
                         \o << CmdBindColorWriteState(15) >>)
        r4 == SetUniforms(r3, texs, c, call.uniformOffset + c.fragSize, call.image)
        r5 == Record(r4, << CmdBindRasterizerState("Back") >>)
        r6 == IF aa
              THEN Record(r5, << CmdBindDepthStencilState(ds2) >>
                              \o StrokeDraws(call, paths))
              ELSE r5
    IN  Record(r6, << CmdBindDepthStencilState(ds3),
                      CmdDraw("TriangleStrip", call.triangleCount, call.triangleOffset),
                      CmdBindDepthStencilState(DefaultDepthStencilState) >>)

\* void DrawFill(ctx, call).
DrawFill(rs, texs, c, call, paths) ==
    LET ds1 == [DefaultDepthStencilState EXCEPT
                   !.stencilTestEnable = TRUE,
                   !.frontCompareOp = "Always", !.frontFailOp = "Keep",
                   !.frontDepthFailOp = "Keep", !.frontPassOp = "IncrWrap",
                   !.backCompareOp = "Always", !.backFailOp = "Keep",
                   !.backDepthFailOp = "Keep", !.backPassOp = "DecrWrap"]
        ds2 == [ds1 EXCEPT
                   !.frontCompareOp = "Equal", !.frontFailOp = "Keep",
                   !.frontDepthFailOp = "Keep", !.frontPassOp = "Keep",
                   !.backCompareOp = "Equal", !.backFailOp = "Keep",
                   !.backDepthFailOp = "Keep", !.backPassOp = "Keep"]
        aa == HasFlag(c.flags, NVG_ANTIALIAS)
        ds3 == [(IF aa THEN ds2 ELSE ds1) EXCEPT
                   !.frontCompareOp = "NotEqual", !.frontFailOp = "Zero",
                   !.frontDepthFailOp = "Zero", !.frontPassOp = "Zero",
                   !.backCompareOp = "NotEqual", !.backFailOp = "Zero",
                   !.backDepthFailOp = "Zero", !.backPassOp = "Zero"]
        r1 == Record(rs, << CmdSetStencil("FrontAndBack"),
                            CmdBindDepthStencilState(ds1),
                            CmdBindColorWriteState(0) >>)
        r2 == SetUniforms(r1, texs, c, call.uniformOffset, 0)
        r3 == Record(r2, << CmdBindRasterizerState("None") >>
                         \o FillDraws(call, paths)
                         \o << CmdBindColorWriteState(15) >>)
        r4 == SetUniforms(r3, texs, c, call.uniformOffset + c.fragSize, call.image)
        r5 == Record(r4, << CmdBindRasterizerState("Back") >>)
        r6 == IF aa
              THEN Record(r5, << CmdBindDepthStencilState(ds2) >>
                              \o StrokeDraws(call, paths))
              ELSE r5
    IN  Record(r6, << CmdBindDepthStencilState(ds3),
                      CmdDraw("TriangleStrip", call.triangleCount, call.triangleOffset),
                      CmdBindDepthStencilState(DefaultDepthStencilState) >>)

\* The body of DrawConvexFill's loop for sub-paths i..pathCount.
RECURSIVE ConvexDraws(_, _, _)
ConvexDraws(call, paths, i) ==
    IF i > call.pathCount THEN <<>>
    ELSE LET p == paths[call.pathOffset + i - 1]
         IN  << CmdDraw("TriangleFan", p.fillCount, p.fillOffset) >>
             \o (IF p.strokeCount > 0
                 THEN << CmdDraw("TriangleStrip", p.strokeCount, p.strokeOffset) >>
                 ELSE <<>>)
             \o ConvexDraws(call, paths, i + 1)

\* A variant for testing properties against: the convex fill sets the
\* stencil reference and binds a depth-stencil state like the stencilled fill.
DrawConvexFillStencilled(rs, texs, c, call, paths) ==
    Record(SetUniforms(Record(rs, << CmdSetStencil("FrontAndBack"),
                                     CmdBindDepthStencilState(DefaultDepthStencilState) >>),
                       texs, c, call.uniformOffset, call.image),
           ConvexDraws(call, paths, 1))

\* void DrawConvexFill(ctx, call).
DrawConvexFill(rs, texs, c, call, paths) ==
    Record(SetUniforms(rs, texs, c, call.uniformOffset, call.image),
           ConvexDraws(call, paths, 1))

\* void DrawStroke(ctx, call).
DrawStroke(rs, texs, c, call, paths) ==
    IF HasFlag(c.flags, NVG_STENCIL_STROKES)
    THEN LET dsA == [DefaultDepthStencilState EXCEPT
                        !.stencilTestEnable = TRUE,
                        !.frontCompareOp = "Equal", !.frontFailOp = "Keep",
                        !.frontDepthFailOp = "Keep", !.frontPassOp = "Incr"]
             dsB == [dsA EXCEPT !.frontPassOp = "Keep"]
             r1 == Record(rs, << CmdSetStencil("Front"),
                                 CmdBindDepthStencilState(dsA) >>)
             r2 == SetUniforms(r1, texs, c, call.uniformOffset + c.fragSize, call.image)
             r3 == Record(r2, StrokeDraws(call, paths)
                              \o << CmdBindDepthStencilState(dsB) >>)
             r4 == SetUniforms(r3, texs, c, call.uniformOffset, call.image)
             \* The clearing state (Always / Zero) is configured on the local
             \* object but never bound before the third round of draws.
         IN  Record(r4, StrokeDraws(call, paths)
                        \o StrokeDraws(call, paths)
                        \o << CmdBindDepthStencilState(DefaultDepthStencilState) >>)
    ELSE Record(SetUniforms(rs, texs, c, call.uniformOffset, call.image),
                StrokeDraws(call, paths))

\* void DrawTriangles(ctx, call).
DrawTriangles(rs, texs, c, call) ==
    Record(SetUniforms(rs, texs, c, call.uniformOffset, call.image),
           << CmdDraw("Triangles", call.triangleCount, call.triangleOffset) >>)

\* The body of Flush's loop for one call, up to the submission: the blend
\* state, then the dispatch on the call's type.
DrawCall(rs, texs, c, call, paths) ==
    LET blended == Record(rs,
            << [op |-> "bindBlendStates",
                srcRGB |-> call.blendFunc.srcRGB,
                dstRGB |-> call.blendFunc.dstRGB,
                srcAlpha |-> call.blendFunc.srcAlpha,
                dstAlpha |-> call.blendFunc.dstRGB] >>)
    IN  IF call.type = DKNVG_FILL THEN DrawFill(blended, texs, c, call, paths)
        ELSE IF call.type = DKNVG_CONVEXFILL THEN DrawConvexFill(blended, texs, c, call, paths)
        ELSE IF call.type = DKNVG_STROKE THEN DrawStroke(blended, texs, c, call, paths)
        ELSE IF call.type = DKNVG_TRIANGLES THEN DrawTriangles(blended, texs, c, call)
        ELSE blended

(***************************************************************************)
(* State.                                                                  *)
(***************************************************************************)
VARIABLES
    nextTextureId,            \* DkRenderer::nextTextureId
    textures,                 \* DkRenderer::textures, in vector order
    imageDescriptorMappings,  \* DkRenderer::imageDescriptorMappings
    lastImageDescriptor,      \* DkRenderer::lastImageDescriptor
    vertexBuffer,             \* DkRenderer::vertexBuffer: <<>> or <<size>>
    dataMemPool,              \* the sizes of the blocks live in
                              \*       DkRenderer::dataMemPool between the steps:
                              \*       the vertex buffer's, and the staging block
                              \*       of an upload that faulted
    dynCmdBuf,                \* commands recorded since the last finished list
    queue,                    \* command lists submitted and not yet retired
    ctx,                      \* the DKNVGcontext
    pc,                       \* where the caller's thread is: "idle" outside the
                              \*       renderer, inside Flush, or in an upload
    inCall,                   \* the texture operation waiting for its upload
    imageMemPool,             \* the ids of the textures whose Texture::imageMem
                              \*       block is live in DkRenderer::imageMemPool
    callIndex,                \* Flush's loop variable i (0 outside Flush)
    \* Observation of the run (history), not read by the renderer:
    lastOp,                   \* the last operation on the context and its result,
                              \*       or the upload the caller is waiting in
    returnedIds,              \* the ids CreateTexture returned, in call order
    acq,                      \* SetUniforms calls made by the last step
    drawn,                    \* the call the last step recorded commands for
    imageDescriptorSet,       \* slot -> id of the texture whose descriptor the
                              \*       update commands recorded so far wrote last
                              \*       into DkRenderer::imageDescriptorSet (0: none)
    held,                     \* id -> slot of its last successful Acquire since
                              \*       its last Release (-1: none)
    frameTextures,            \* registered textures a slot was requested for in
                              \*       this Flush, each with whether it got one
    nSubmit,                  \* queue.submitCommands calls of this Flush
    nWaitIdle,                \* queue.waitIdle returns of this Flush
    dynCmdMem                 \* the begin and end calls this Flush has made on
                              \*       DkRenderer::dynCmdMem

vars == << nextTextureId, textures, imageDescriptorMappings, lastImageDescriptor,
           vertexBuffer, dataMemPool, dynCmdBuf, queue, ctx, pc, inCall, callIndex,
           lastOp, returnedIds, acq, drawn, held, frameTextures, nSubmit, nWaitIdle,
           dynCmdMem, imageMemPool, imageDescriptorSet >>

slotVars == << imageDescriptorMappings, lastImageDescriptor >>
registryVars == << nextTextureId, textures, returnedIds, inCall, imageMemPool >>
gpuVars == << vertexBuffer, dataMemPool, dynCmdBuf, queue >>
frameObs == << frameTextures, nSubmit, nWaitIdle, dynCmdMem >>

\* Image ids a caller may pass: 0 (none) and every id CreateTexture can
\* return within the bound (registered, deleted or not yet created).
ImageIds == 0 .. MaxTextureId

(***************************************************************************)
(* Inputs.                                                                 *)
(***************************************************************************)
\* What nvgCreateDk was given in the demo application.
DemoFlags == NVG_ANTIALIAS + NVG_STENCIL_STROKES

CallTypes == { DKNVG_FILL, DKNVG_CONVEXFILL, DKNVG_STROKE, DKNVG_TRIANGLES }

\* The element ctx->calls[i] as the producer may have written it: the
\* producer gives every call its own uniform blocks and triangle range.
CallAt(i, type, image) ==
    [type |-> type, image |-> image,
     pathOffset |-> i, pathCount |-> 1,
     triangleOffset |-> 10 * i + 6, triangleCount |-> 4,
     uniformOffset |-> 2 * i * ctx.fragSize,
     blendFunc |-> [srcRGB |-> 1, dstRGB |-> 2, srcAlpha |-> 3, dstAlpha |-> 4]]

\* The array ctx->paths as the producer may have written it.
PathsArray ==
    [k \in 0 .. ctx.cpaths |->
        [fillOffset |-> 10 * k, fillCount |-> 3,
         strokeOffset |-> 10 * k + 3, strokeCount |-> 3]]

(***************************************************************************)
(* Construction: DkRenderer's constructor, then Create(ctx).               *)
(***************************************************************************)
InitWith(flags, ccalls) ==
    /\ nextTextureId = 1
    /\ textures = <<>>
    /\ imageDescriptorMappings = [desc \in Slots |-> 0]
    /\ lastImageDescriptor = 0
    /\ vertexBuffer = <<>>
    /\ dataMemPool = <<>>
    /\ dynCmdBuf = <<>>
    /\ queue = <<>>
    /\ ctx = [fragSize |-> FragmentUniformSize, flags |-> flags,
              calls |-> "calls", ccalls |-> ccalls, ncalls |-> 0,
              paths |-> "paths", cpaths |-> ccalls, npaths |-> 0,
              verts |-> "verts", cverts |-> 3 * ccalls, nverts |-> 0,
              uniforms |-> "uniforms", cuniforms |-> 2 * ccalls * FragmentUniformSize,
              nuniforms |-> 0]
    /\ pc = "idle"
    /\ callIndex = 0
    /\ lastOp = [op |-> "Create", ret |-> 1]
    /\ returnedIds = <<>>
    /\ acq = <<>>
    /\ drawn = nullptr
    /\ inCall = nullptr
    /\ imageMemPool = {}
    /\ held = [id \in ImageIds |-> -1]
    /\ imageDescriptorSet = [desc \in Slots |-> 0]
    /\ frameTextures = {}
    /\ nSubmit = 0
    /\ nWaitIdle = 0
    /\ dynCmdMem = [begins |-> 0, ends |-> 0]

Init == InitWith(DemoFlags, MaxCalls)

(***************************************************************************)
(* The geometry producer (outside the renderer core): appends one call,    *)
(* or allocates paths and vertices for a call it then gives up.            *)
(***************************************************************************)
RenderCall(dcalls, dpaths, dverts, duniforms) ==
    /\ pc = "idle"
    /\ ctx.ncalls + dcalls <= ctx.ccalls
    /\ ctx.npaths + dpaths <= ctx.cpaths
    /\ ctx.nverts + dverts <= ctx.cverts
    /\ ctx.nuniforms + duniforms * ctx.fragSize <= ctx.cuniforms
    /\ ctx' = [ctx EXCEPT !.ncalls = @ + dcalls, !.npaths = @ + dpaths,
                          !.nverts = @ + dverts,
                          !.nuniforms = @ + duniforms * ctx.fragSize]
    /\ lastOp' = [op |-> "Render"]
    /\ acq' = <<>>
    /\ drawn' = nullptr
    /\ UNCHANGED << registryVars, slotVars, gpuVars, pc, callIndex, held, imageDescriptorSet, frameObs >>

(***************************************************************************)
(* Texture registry operations.                                            *)
(*                                                                         *)
(* The renderer never reads the frame's counters in these operations and   *)
(* reads the arrays' elements only inside Flush, so a texture operation    *)
(* made while a frame is being produced has the effect of the same         *)
(* operation made before the frame's first call.  The model explores the   *)
(* runs in which texture operations come first.                            *)
(***************************************************************************)
FrameEmpty == ctx.ncalls = 0 /\ ctx.npaths = 0 /\ ctx.nverts = 0 /\ ctx.nuniforms = 0

\* A pointer k bytes into the pixel buffer the caller passed.
DataAt(k) == [null |-> FALSE, off |-> k]

\* A variant for testing properties against: every format is taken to have
\* one byte per pixel.
UpdateImageOneBytePerPixel(type, x, y, w, h, data) ==
    IF data = nullptr THEN <<>>
    ELSE << [op |-> "copyBufferToImage", src |-> data, size |-> w * h,
             x |-> x, y |-> y, z |-> 0,
             width |-> w, height |-> h, depth |-> 1] >>

\* void UpdateImage(image, ..., transferQueue, type, x, y, w, h, data) up to
\* transferQueue.submitCommands: the command list handed to the queue, none
\* when data is null.  The staging block has imageSize bytes and is filled
\* with imageSize bytes read at data.
UpdateImage(type, x, y, w, h, data) ==
    IF data = nullptr THEN <<>>
    ELSE LET imageSize == IF type = NVG_TEXTURE_RGBA THEN w * h * 4 ELSE w * h
         IN  << [op |-> "copyBufferToImage", src |-> data, size |-> imageSize,
                 x |-> x, y |-> y, z |-> 0,
                 width |-> w, height |-> h, depth |-> 1] >>

\* A variant for testing properties against: the id is taken from the
\* number of registered textures instead of the counter.
CreateTextureReusingIds(type, w, h, imageFlags, data) ==
    /\ pc = "idle"
    /\ FrameEmpty
    /\ nextTextureId <= MaxTextureId
    /\ LET textureId == Len(textures) + 1
           texture == [id |-> textureId, width |-> w, height |-> h,
                       type |-> type, flags |-> imageFlags]
           upload == UpdateImage(type, 0, 0, w, h, data)
       IN  /\ nextTextureId' = nextTextureId + 1
           /\ imageMemPool' = imageMemPool \cup { textureId }
           /\ IF upload = <<>>
              THEN /\ textures' = Append(textures, texture)
                   /\ returnedIds' = Append(returnedIds, texture.id)
                   /\ lastOp' = [op |-> "CreateTexture", ret |-> texture.id,
                                 w |-> w, h |-> h, data |-> data,
                                 submits |-> 0, waits |-> 0]
                   /\ UNCHANGED << queue, pc, inCall, nSubmit >>
              ELSE /\ queue' = Append(queue, upload)
                   /\ nSubmit' = nSubmit + 1
                   /\ pc' = "upload"
                   /\ inCall' = [op |-> "CreateTexture", texture |-> texture,
                                 data |-> data]
                   /\ lastOp' = [op |-> "UpdateImage"]
                   /\ UNCHANGED << textures, returnedIds >>
    /\ acq' = <<>>
    /\ drawn' = nullptr
    /\ UNCHANGED << slotVars, vertexBuffer, dataMemPool, dynCmdBuf, ctx, callIndex,
                    held, imageDescriptorSet, frameTextures, nWaitIdle, dynCmdMem >>

\* int CreateTexture(ctx, type, w, h, imageFlags, data) up to the return, or,
\* when data is given, up to the upload Texture::Initialize submits: the
\* texture is registered only after Initialize has returned.
CreateTexture(type, w, h, imageFlags, data) ==
    /\ pc = "idle"
    /\ FrameEmpty
    /\ nextTextureId <= MaxTextureId
    /\ LET textureId == nextTextureId
           texture == [id |-> textureId, width |-> w, height |-> h,
                       type |-> type, flags |-> imageFlags]
           upload == UpdateImage(type, 0, 0, w, h, data)
       IN  /\ nextTextureId' = nextTextureId + 1
           /\ imageMemPool' = imageMemPool \cup { textureId }
           /\ IF upload = <<>>
              THEN /\ textures' = Append(textures, texture)
                   /\ returnedIds' = Append(returnedIds, texture.id)
                   /\ lastOp' = [op |-> "CreateTexture", ret |-> texture.id,
                                 w |-> w, h |-> h, data |-> data,
                                 submits |-> 0, waits |-> 0]
                   /\ UNCHANGED << queue, pc, inCall, nSubmit >>
              ELSE /\ queue' = Append(queue, upload)
                   /\ nSubmit' = nSubmit + 1
                   /\ pc' = "upload"
                   /\ inCall' = [op |-> "CreateTexture", texture |-> texture,
                                 data |-> data]
                   /\ lastOp' = [op |-> "UpdateImage"]
                   /\ UNCHANGED << textures, returnedIds >>
    /\ acq' = <<>>
    /\ drawn' = nullptr
    /\ UNCHANGED << slotVars, vertexBuffer, dataMemPool, dynCmdBuf, ctx, callIndex,
                    held, imageDescriptorSet, frameTextures, nWaitIdle, dynCmdMem >>

\* The pointer a build computes when it advances a null data pointer by
\* k > 0 bytes: not null, and not a pointer into any buffer of the caller.
\* The arithmetic is undefined behaviour.
NullPlus(k) == [null |-> FALSE, invalid |-> k]

\* int UpdateTexture(ctx, image, x, y, w, h, data) up to the return, or up to
\* the upload UpdateImage submits.  The data pointer is advanced to row y and
\* whole rows are uploaded.  A null data pointer stays null only when it is
\* advanced by 0 bytes; advanced by more, the behaviour is undefined: the
\* null check of UpdateImage does not stop the call, the staging block is
\* allocated, and the copy into it reads at the invalid address, where the
\* process either faults inside the call (which then never returns) or
\* reads whatever is there and goes on to submit the upload.
UpdateTexture(image, x, y, w, h, data) ==
    /\ pc = "idle"
    /\ FrameEmpty
    /\ LET texture == FindTexture(textures, image)
           texDesc == [width |-> texture.width, height |-> texture.height,
                       type |-> texture.type, flags |-> texture.flags]
           advance == IF texDesc.type = NVG_TEXTURE_RGBA
                      THEN y * texDesc.width * 4
                      ELSE y * texDesc.width
           rowData == IF data # nullptr THEN DataAt(data.off + advance)
                      ELSE IF advance = 0 THEN data
                      ELSE NullPlus(advance)
           imageSize == IF texDesc.type = NVG_TEXTURE_RGBA
                        THEN texDesc.width * h * 4 ELSE texDesc.width * h
           upload == UpdateImage(texDesc.type, 0, y, texDesc.width, h, rowData)
           submitted == /\ queue' = Append(queue, upload)
                        /\ nSubmit' = nSubmit + 1
                        /\ pc' = "upload"
                        /\ inCall' = [op |-> "UpdateTexture", image |-> image,
                                      x |-> x, y |-> y, w |-> w, h |-> h,
                                      data |-> data]
                        /\ lastOp' = [op |-> "UpdateImage"]
                        /\ UNCHANGED dataMemPool
           faulted == /\ dataMemPool' = Append(dataMemPool, imageSize)
                      /\ pc' = "crashed"
                      /\ lastOp' = [op |-> "UpdateImage"]
                      /\ UNCHANGED << queue, inCall, nSubmit >>
       IN  IF texture = nullptr
           THEN /\ lastOp' = [op |-> "UpdateTexture", image |-> image, ret |-> 0,
                              data |-> data, submits |-> 0, waits |-> 0]
                /\ UNCHANGED << queue, pc, inCall, nSubmit, dataMemPool >>
           ELSE IF upload = <<>>
           THEN /\ lastOp' = [op |-> "UpdateTexture", image |-> image, ret |-> 1,
                              data |-> data, submits |-> 0, waits |-> 0]
                /\ UNCHANGED << queue, pc, inCall, nSubmit, dataMemPool >>
           ELSE IF data = nullptr
           THEN faulted \/ submitted
           ELSE submitted
    /\ acq' = <<>>
    /\ drawn' = nullptr
    /\ UNCHANGED << nextTextureId, textures, returnedIds, imageMemPool, slotVars,
                    vertexBuffer, dynCmdBuf, ctx, callIndex, held, imageDescriptorSet,
                    frameTextures, nWaitIdle, dynCmdMem >>

\* A variant for testing properties against: the operation returns without
\* waiting for the queue.
UpdateImageWaitIdleNotWaiting ==
    /\ pc = "upload"
    /\ IF inCall.op = "CreateTexture"
       THEN /\ textures' = Append(textures, inCall.texture)
            /\ returnedIds' = Append(returnedIds, inCall.texture.id)
            /\ lastOp' = [op |-> "CreateTexture", ret |-> inCall.texture.id,
                          w |-> inCall.texture.width, h |-> inCall.texture.height,
                          data |-> inCall.data,
                          submits |-> nSubmit, waits |-> nWaitIdle + 1]
       ELSE /\ lastOp' = [op |-> "UpdateTexture", image |-> inCall.image, ret |-> 1,
                          data |-> inCall.data,
                          submits |-> nSubmit, waits |-> nWaitIdle + 1]
            /\ UNCHANGED << textures, returnedIds >>
    /\ inCall' = nullptr
    /\ UNCHANGED imageMemPool
    /\ pc' = "idle"
    /\ nSubmit' = 0
    /\ nWaitIdle' = 0
    /\ acq' = <<>>
    /\ drawn' = nullptr
    /\ UNCHANGED << nextTextureId, slotVars, gpuVars, ctx, callIndex, held, imageDescriptorSet,
                    frameTextures, dynCmdMem >>

\* The rest of UpdateImage and of the operation that called it:
\* transferQueue.waitIdle() returns once the queue has retired everything,
\* the staging block is destroyed, and CreateTexture registers the texture
\* and returns its id, or UpdateTexture returns 1.
UpdateImageWaitIdle ==
    /\ pc = "upload"
    /\ queue = <<>>
    /\ IF inCall.op = "CreateTexture"
       THEN /\ textures' = Append(textures, inCall.texture)
            /\ returnedIds' = Append(returnedIds, inCall.texture.id)
            /\ lastOp' = [op |-> "CreateTexture", ret |-> inCall.texture.id,
                          w |-> inCall.texture.width, h |-> inCall.texture.height,
                          data |-> inCall.data,
                          submits |-> nSubmit, waits |-> nWaitIdle + 1]
       ELSE /\ lastOp' = [op |-> "UpdateTexture", image |-> inCall.image, ret |-> 1,
                          data |-> inCall.data,
                          submits |-> nSubmit, waits |-> nWaitIdle + 1]
            /\ UNCHANGED << textures, returnedIds >>
    /\ inCall' = nullptr
    /\ UNCHANGED imageMemPool
    /\ pc' = "idle"
    /\ nSubmit' = 0
    /\ nWaitIdle' = 0
    /\ acq' = <<>>
    /\ drawn' = nullptr
    /\ UNCHANGED << nextTextureId, slotVars, gpuVars, ctx, callIndex, held, imageDescriptorSet,
                    frameTextures, dynCmdMem >>

\* A variant for testing properties against: the outputs are zeroed when
\* the texture is not found.
GetTextureSizeZeroing(image, w0, h0) ==
    /\ pc = "idle"
    /\ FrameEmpty
    /\ LET descriptor == GetTextureDescriptor(textures, image)
       IN  lastOp' = IF descriptor = nullptr
                     THEN [op |-> "GetTextureSize", image |-> image, ret |-> 0,
                           w0 |-> w0, h0 |-> h0, w |-> 0, h |-> 0]
                     ELSE [op |-> "GetTextureSize", image |-> image, ret |-> 1,
                           w0 |-> w0, h0 |-> h0,
                           w |-> descriptor.width, h |-> descriptor.height]
    /\ acq' = <<>>
    /\ drawn' = nullptr
    /\ UNCHANGED << registryVars, slotVars, gpuVars, ctx, pc, callIndex, held, imageDescriptorSet,
                    frameObs >>

\* int GetTextureSize(ctx, image, w, h), called with *w = w0 and *h = h0:
\* the outputs are written only when the texture is found.
GetTextureSize(image, w0, h0) ==
    /\ pc = "idle"
    /\ FrameEmpty
    /\ LET descriptor == GetTextureDescriptor(textures, image)
       IN  lastOp' = IF descriptor = nullptr
                     THEN [op |-> "GetTextureSize", image |-> image, ret |-> 0,
                           w0 |-> w0, h0 |-> h0, w |-> w0, h |-> h0]
                     ELSE [op |-> "GetTextureSize", image |-> image, ret |-> 1,
                           w0 |-> w0, h0 |-> h0,
                           w |-> descriptor.width, h |-> descriptor.height]
    /\ acq' = <<>>
    /\ drawn' = nullptr
    /\ UNCHANGED << registryVars, slotVars, gpuVars, ctx, pc, callIndex, held, imageDescriptorSet,
                    frameObs >>

\* A call of GetTextureDescriptor(ctx, image) by the application.
GetTextureDescriptorCall(image) ==
    /\ pc = "idle"
    /\ FrameEmpty
    /\ lastOp' = [op |-> "GetTextureDescriptor", image |-> image,
                  ret |-> GetTextureDescriptor(textures, image)]
    /\ acq' = <<>>
    /\ drawn' = nullptr
    /\ UNCHANGED << registryVars, slotVars, gpuVars, ctx, pc, callIndex, held, imageDescriptorSet,
                    frameObs >>

\* int DeleteTexture(ctx, image).
\* A variant for testing properties against: the texture leaves the vector
\* while its image memory stays allocated.
DeleteTextureLeaking(image) ==
    /\ pc = "idle"
    /\ FrameEmpty
    /\ LET found == \E k \in 1 .. Len(textures) : textures[k].id = image
       IN  /\ textures' = SelectSeq(textures, LAMBDA t : t.id # image)
           /\ imageDescriptorMappings' =
                  FreeImageDescriptor(imageDescriptorMappings, lastImageDescriptor, image)
           /\ lastOp' = [op |-> "DeleteTexture", image |-> image,
                         ret |-> IF found THEN 1 ELSE 0]
    /\ held' = [held EXCEPT ![image] = -1]
    /\ UNCHANGED imageDescriptorSet
    /\ acq' = <<>>
    /\ drawn' = nullptr
    /\ UNCHANGED << nextTextureId, returnedIds, inCall, imageMemPool,
                    lastImageDescriptor, gpuVars, ctx, pc, callIndex, frameObs >>

\* The textures DeleteTexture(image) erases from the vector: the last owner
\* of each lets go of it, so Texture::~Texture runs on it.
Erased(texs, image) == { texs[k] : k \in { j \in 1 .. Len(texs) : texs[j].id = image } }

DeleteTexture(image) ==
    /\ pc = "idle"
    /\ FrameEmpty
    /\ LET found == \E k \in 1 .. Len(textures) : textures[k].id = image
       IN  /\ textures' = SelectSeq(textures, LAMBDA t : t.id # image)
           /\ imageMemPool' = imageMemPool \ { t.id : t \in Erased(textures, image) }
           /\ imageDescriptorMappings' =
                  FreeImageDescriptor(imageDescriptorMappings, lastImageDescriptor, image)
           /\ lastOp' = [op |-> "DeleteTexture", image |-> image,
                         ret |-> IF found THEN 1 ELSE 0]
    /\ held' = [held EXCEPT ![image] = -1]
    /\ UNCHANGED imageDescriptorSet
    /\ acq' = <<>>
    /\ drawn' = nullptr
    /\ UNCHANGED << nextTextureId, returnedIds, inCall, lastImageDescriptor,
                    gpuVars, ctx, pc, callIndex, frameObs >>

(***************************************************************************)
(* Flush.                                                                  *)
(***************************************************************************)
\* CMemPool::Handle::destroy() on a block of the given size: the block
\* leaves the pool.
DestroyBlock(pool, size) ==
    LET k == CHOOSE k \in 1 .. Len(pool) :
                 pool[k] = size /\ \A j \in 1 .. k - 1 : pool[j] # size
    IN  SubSeq(pool, 1, k - 1) \o SubSeq(pool, k + 1, Len(pool))

\* A variant for testing properties against: the old allocation is not
\* destroyed.
UpdateVertexBufferLeaking(vb, pool, size) ==
    [vertexBuffer |-> << size >>, pool |-> Append(pool, size)]

\* void UpdateVertexBuffer(data, size): the old allocation, if any, is
\* destroyed and a new one of the given size is created and filled.
UpdateVertexBuffer(vb, pool, size) ==
    LET destroyed == IF vb # <<>> THEN DestroyBlock(pool, vb[1]) ELSE pool
    IN  [vertexBuffer |-> << size >>, pool |-> Append(destroyed, size)]

\* The commands Flush records before its loop.
SetupCmds(vb) ==
    << [op |-> "bindColorState", blendEnable |-> TRUE],
       [op |-> "bindShaders"],
       [op |-> "bindVtxAttribState"],
       [op |-> "bindVtxBufferState"],
       [op |-> "bindVtxBuffer", size |-> vb[1]],
       [op |-> "pushConstants", buf |-> "viewUniformBuffer", size |-> 8, src |-> "view"],
       [op |-> "bindUniformBuffer", stage |-> "Vertex", buf |-> "viewUniformBuffer"] >>

\* The observation of Acquire calls: each success makes the id hold its slot.
RECURSIVE HeldAfter(_, _)
HeldAfter(h, log) ==
    IF log = <<>> THEN h
    ELSE HeldAfter(IF log[1].ret # -1 THEN [h EXCEPT ![log[1].image] = log[1].ret] ELSE h,
                   Tail(log))

\* A variant for testing properties against: nuniforms is not zeroed.
ResetCallsKeepingUniforms(c) ==
    [c EXCEPT !.nverts = 0, !.npaths = 0, !.ncalls = 0]

\* The counters Flush zeroes when it returns.
ResetCalls(c) ==
    [c EXCEPT !.nverts = 0, !.npaths = 0, !.ncalls = 0, !.nuniforms = 0]

\* A variant for testing properties against: the empty Flush returns
\* before the counters are reset.
FlushEmptyKeepingCounters ==
    /\ pc = "idle"
    /\ ~(ctx.ncalls > 0)
    /\ lastOp' = [op |-> "Flush", ncalls |-> ctx.ncalls]
    /\ acq' = <<>>
    /\ drawn' = nullptr
    /\ UNCHANGED << registryVars, slotVars, gpuVars, ctx, pc, callIndex, held, imageDescriptorSet, frameObs >>

\* Flush with an empty call list: only the counters are reset.
FlushEmpty ==
    /\ pc = "idle"
    /\ ~(ctx.ncalls > 0)
    /\ ctx' = ResetCalls(ctx)
    /\ lastOp' = [op |-> "Flush", ncalls |-> ctx.ncalls]
    /\ acq' = <<>>
    /\ drawn' = nullptr
    /\ UNCHANGED << registryVars, slotVars, gpuVars, pc, callIndex, held, imageDescriptorSet, frameObs >>

\* Flush with calls, up to the loop: dynCmdMem.begin, the vertex buffer,
\* the frame's setup commands.
FlushBegin ==
    /\ pc = "idle"
    /\ ctx.ncalls > 0
    /\ dynCmdMem' = [begins |-> 1, ends |-> 0]
    /\ LET updated == UpdateVertexBuffer(vertexBuffer, dataMemPool,
                                         ctx.nverts * SizeofNVGvertex)
       IN  /\ vertexBuffer' = updated.vertexBuffer
           /\ dataMemPool' = updated.pool
    /\ dynCmdBuf' = SetupCmds(vertexBuffer')
    /\ callIndex' = 0
    /\ pc' = "loop"
    /\ lastOp' = [op |-> "Flush", ncalls |-> ctx.ncalls]
    /\ acq' = <<>>
    /\ drawn' = nullptr
    /\ frameTextures' = {}
    /\ nSubmit' = 0
    /\ nWaitIdle' = 0
    /\ UNCHANGED << registryVars, slotVars, queue, ctx, held, imageDescriptorSet >>

\* One iteration of the loop up to queue.submitCommands: the commands of
\* call i are recorded and the finished list is handed to the queue.
FlushCallOf(call) ==
    /\ pc = "loop"
    /\ LET rs == DrawCall([maps |-> imageDescriptorMappings,
                           last |-> lastImageDescriptor,
                           cmds |-> dynCmdBuf, acq |-> <<>>],
                          textures, ctx, call, PathsArray)
       IN  /\ imageDescriptorMappings' = rs.maps
           /\ lastImageDescriptor' = rs.last
           /\ queue' = Append(queue, rs.cmds)
           /\ acq' = rs.acq
           /\ drawn' = call
    /\ dynCmdBuf' = <<>>
    /\ dynCmdMem' = [dynCmdMem EXCEPT !.ends = @ + 1]
    /\ nSubmit' = nSubmit + 1
    /\ pc' = "wait"
    /\ UNCHANGED << registryVars, vertexBuffer, dataMemPool, ctx, callIndex, lastOp,
                    nWaitIdle >>

\* The step for a call of the given type and image with one sub-path.
FlushCall(type, image) == FlushCallOf(CallAt(callIndex, type, image))

\* The same step with the history of acquisitions kept: the registered
\* textures a slot was requested for join the frame's set, and each
\* success makes the id hold its slot.
FlushCallCounted(type, image) ==
    /\ FlushCall(type, image)
    /\ frameTextures' = frameTextures
           \cup { [image |-> acq'[k].image, served |-> acq'[k].ret # -1] :
                      k \in { n \in 1 .. Len(acq') : acq'[n].registered } }
    /\ held' = HeldAfter(held, acq')
    /\ UNCHANGED imageDescriptorSet

\* The image descriptor set after the update commands of a command list,
\* in recorded order.
RECURSIVE DescriptorsAfter(_, _)
DescriptorsAfter(set, cmds) ==
    IF cmds = <<>> THEN set
    ELSE DescriptorsAfter(IF Head(cmds).op = "updateDescriptor"
                          THEN [set EXCEPT ![Head(cmds).slot] = Head(cmds).texture]
                          ELSE set,
                          Tail(cmds))

\* The same step with the contents of the image descriptor set kept.
FlushCallWritten(type, image) ==
    /\ FlushCall(type, image)
    /\ imageDescriptorSet' = DescriptorsAfter(imageDescriptorSet, queue'[Len(queue')])
    /\ UNCHANGED << frameTextures, held >>

\* The same step with no history kept.
FlushCallPlain(type, image) ==
    /\ FlushCall(type, image)
    /\ UNCHANGED << frameTextures, held, imageDescriptorSet >>

\* A variant for testing properties against: the loop advances without
\* waiting for the queue.
FlushWaitIdleNotWaiting ==
    /\ pc = "wait"
    /\ nWaitIdle' = nWaitIdle + 1
    /\ callIndex' = callIndex + 1
    /\ pc' = IF callIndex + 1 < ctx.ncalls THEN "loop" ELSE "reset"
    /\ acq' = <<>>
    /\ drawn' = nullptr
    /\ UNCHANGED << registryVars, slotVars, gpuVars, ctx, lastOp, held, imageDescriptorSet,
                    frameTextures, nSubmit, dynCmdMem >>

\* queue.waitIdle() returns once the queue has retired everything; then
\* the loop advances.
FlushWaitIdle ==
    /\ pc = "wait"
    /\ queue = <<>>
    /\ nWaitIdle' = nWaitIdle + 1
    /\ callIndex' = callIndex + 1
    /\ pc' = IF callIndex + 1 < ctx.ncalls THEN "loop" ELSE "reset"
    /\ acq' = <<>>
    /\ drawn' = nullptr
    /\ UNCHANGED << registryVars, slotVars, gpuVars, ctx, lastOp, held, imageDescriptorSet,
                    frameTextures, nSubmit, dynCmdMem >>

\* The end of Flush after the loop: the counters are reset.
FlushReset ==
    /\ pc = "reset"
    /\ ctx' = ResetCalls(ctx)
    /\ pc' = "idle"
    /\ frameTextures' = {}
    /\ nSubmit' = 0
    /\ nWaitIdle' = 0
    /\ dynCmdMem' = [begins |-> 0, ends |-> 0]
    /\ callIndex' = 0
    /\ acq' = <<>>
    /\ drawn' = nullptr
    /\ UNCHANGED << registryVars, slotVars, gpuVars, lastOp, held, imageDescriptorSet >>

\* The GPU retires the oldest submitted command list.
GpuExecute ==
    /\ queue # <<>>
    /\ queue' = Tail(queue)
    /\ acq' = <<>>
    /\ drawn' = nullptr
    /\ UNCHANGED << registryVars, slotVars, vertexBuffer, dataMemPool, dynCmdBuf,
                    ctx, pc, callIndex, lastOp, held, imageDescriptorSet, frameObs >>

\* DkRenderer::~DkRenderer(): the vertex buffer block, if any, is destroyed
\* and the textures are dropped.  The members keep the values they had.
Destroy ==
    /\ pc = "idle"
    /\ FrameEmpty
    /\ dataMemPool' = IF vertexBuffer # <<>>
                      THEN DestroyBlock(dataMemPool, vertexBuffer[1])
                      ELSE dataMemPool
    /\ textures' = <<>>
    /\ imageMemPool' = imageMemPool \ { textures[k].id : k \in 1 .. Len(textures) }
    /\ pc' = "destroyed"
    /\ lastOp' = [op |-> "Destroy"]
    /\ acq' = <<>>
    /\ drawn' = nullptr
    /\ UNCHANGED << nextTextureId, returnedIds, inCall, slotVars, vertexBuffer,
                    dynCmdBuf, queue, ctx, callIndex, held, imageDescriptorSet, frameObs >>

(***************************************************************************)
(* Specification.                                                          *)
(***************************************************************************)
Next ==
    \/ CreateTexture(NVG_TEXTURE_RGBA, 1, 1, 0, nullptr)
    \/ \E image \in ImageIds : DeleteTexture(image)
    \/ RenderCall(1, 1, 3, 2)
    \/ RenderCall(0, MaxCalls, 3, 0)
    \/ FlushEmpty
    \/ FlushBegin
    \/ \E type \in CallTypes, image \in ImageIds : FlushCallPlain(type, image)
    \/ FlushWaitIdle
    \/ FlushReset
    \/ GpuExecute

Spec == Init /\ [][Next]_vars

(***************************************************************************)
(* The same program with the history of acquisitions kept, and with frames *)
(* long enough to reference more textures than there are slots.            *)
(***************************************************************************)
InitHistory == InitWith(DemoFlags, MaxImages + 1)

NextHistory ==
    \/ CreateTexture(NVG_TEXTURE_RGBA, 1, 1, 0, nullptr)
    \/ \E image \in ImageIds : DeleteTexture(image)
    \/ RenderCall(1, 1, 3, 2)
    \/ FlushEmpty
    \/ FlushBegin
    \/ \E type \in CallTypes, image \in ImageIds : FlushCallCounted(type, image)
    \/ FlushWaitIdle
    \/ FlushReset
    \/ GpuExecute

SpecHistory == InitHistory /\ [][NextHistory]_vars

(***************************************************************************)
(* The draw routines under every combination of the creation flags, with   *)
(* calls of zero or more sub-paths.                                        *)
(***************************************************************************)
InitDraw ==
    \E flags \in 0 .. (NVG_ANTIALIAS + NVG_STENCIL_STROKES) : InitWith(flags, MaxCalls)

\* The loop step for a call that spans pathCount of the frame's sub-paths.
FlushCallPaths(type, image, pathCount) ==
    /\ callIndex + pathCount <= ctx.npaths
    /\ FlushCallOf([CallAt(callIndex, type, image) EXCEPT !.pathCount = pathCount])
    /\ UNCHANGED << frameTextures, held, imageDescriptorSet >>

NextDraw ==
    \/ CreateTexture(NVG_TEXTURE_RGBA, 1, 1, 0, nullptr)
    \/ RenderCall(1, 1, 3, 2)
    \/ FlushEmpty
    \/ FlushBegin
    \/ \E type \in CallTypes, image \in 0 .. 1, pathCount \in 0 .. MaxCalls :
           FlushCallPaths(type, image, pathCount)
    \/ FlushWaitIdle
    \/ FlushReset
    \/ GpuExecute

SpecDraw == InitDraw /\ [][NextDraw]_vars

(***************************************************************************)
(* The texture operations with textures of different sizes and formats,    *)
(* with and without pixel data, between frames of one call.                *)
(***************************************************************************)
InitTexture == InitWith(DemoFlags, 1)

\* The type, width and height of the textures the application creates.
TextureShapes == { << NVG_TEXTURE_RGBA, 2, 2 >>, << NVG_TEXTURE_ALPHA, 3, 1 >> }

\* The data arguments: no data, or the start of a pixel buffer.
DataArgs == { nullptr, DataAt(0) }

\* The rows y .. y + h - 1 passed to UpdateTexture lie inside the texture.
RowsInside(image, y, h, data) ==
    FindTexture(textures, image) # nullptr
        => y + h <= FindTexture(textures, image).height

NextTexture ==
    \/ \E shape \in TextureShapes, data \in DataArgs :
           CreateTexture(shape[1], shape[2], shape[3], 0, data)
    \/ \E image \in ImageIds : DeleteTexture(image)
    \/ \E image \in ImageIds, x \in 0 .. 1, y \in 0 .. 1, w \in 1 .. 2, h \in 1 .. 2,
          data \in DataArgs :
           /\ RowsInside(image, y, h, data)
           /\ UpdateTexture(image, x, y, w, h, data)
    \/ UpdateImageWaitIdle
    \/ \E image \in ImageIds, w0 \in { -1, 2 } : GetTextureSize(image, w0, -1)
    \/ \E image \in ImageIds : GetTextureDescriptorCall(image)
    \/ RenderCall(1, 1, 3, 2)
    \/ FlushEmpty
    \/ FlushBegin
    \/ \E image \in 0 .. 1 : FlushCallPlain(DKNVG_TRIANGLES, image)
    \/ FlushWaitIdle
    \/ FlushReset
    \/ GpuExecute

SpecTexture == InitTexture /\ [][NextTexture]_vars

(***************************************************************************)
(* The renderer from construction to teardown: frames of up to MaxCalls    *)
(* calls, then the destructor.                                             *)
(***************************************************************************)
NextLifetime ==
    \/ CreateTexture(NVG_TEXTURE_RGBA, 1, 1, 0, nullptr)
    \/ RenderCall(1, 1, 3, 2)
    \/ FlushEmpty
    \/ FlushBegin
    \/ \E type \in CallTypes, image \in 0 .. 1 : FlushCallPlain(type, image)
    \/ FlushWaitIdle
    \/ FlushReset
    \/ GpuExecute
    \/ Destroy

SpecLifetime == Init /\ [][NextLifetime]_vars

(***************************************************************************)
(* The textures' image memory from creation to release: CreateTexture with *)
(* and without pixel data, DeleteTexture of any id, and the destruction of *)
(* the renderer.                                                           *)
(***************************************************************************)
NextImages ==
    \/ \E data \in DataArgs : CreateTexture(NVG_TEXTURE_RGBA, 1, 1, 0, data)
    \/ UpdateImageWaitIdle
    \/ \E image \in ImageIds : DeleteTexture(image)
    \/ GpuExecute
    \/ Destroy

SpecImages == Init /\ [][NextImages]_vars

(***************************************************************************)
(* The image descriptor set over frames of one fill call each, with        *)
(* textures created and deleted between the frames.                        *)
(***************************************************************************)
NextDescriptors ==
    \/ CreateTexture(NVG_TEXTURE_RGBA, 1, 1, 0, nullptr)
    \/ \E image \in ImageIds : DeleteTexture(image)
    \/ RenderCall(1, 1, 3, 2)
    \/ FlushBegin
    \/ \E image \in ImageIds : FlushCallWritten(DKNVG_FILL, image)
    \/ FlushWaitIdle
    \/ FlushReset
    \/ GpuExecute

SpecDescriptors == Init /\ [][NextDescriptors]_vars

(***************************************************************************)
(* Textures created with different image flags and drawn with: frames of   *)
(* one fill or triangles call each.  The flag words are none of the six    *)
(* image flags, and two words that split the four flags the sampler is     *)
(* chosen by and the other two (8 and 16) between them.                    *)
(***************************************************************************)
ImageFlagArgs ==
    { 0,
      NVG_IMAGE_GENERATE_MIPMAPS + NVG_IMAGE_REPEATY + 8,
      NVG_IMAGE_REPEATX + NVG_IMAGE_NEAREST + 16 }

NextSampler ==
    \/ \E imageFlags \in ImageFlagArgs :
           CreateTexture(NVG_TEXTURE_RGBA, 1, 1, imageFlags, nullptr)
    \/ RenderCall(1, 1, 3, 2)
    \/ FlushBegin
    \/ \E type \in { DKNVG_FILL, DKNVG_TRIANGLES }, image \in 0 .. MaxImages :
           FlushCallPlain(type, image)
    \/ FlushWaitIdle
    \/ FlushReset
    \/ GpuExecute

SpecSampler == Init /\ [][NextSampler]_vars

(***************************************************************************)
(* Properties.                                                             *)
(***************************************************************************)
\* The ids of the registered textures.
RegisteredIds == { textures[k].id : k \in 1 .. Len(textures) }

\* The step just taken was one iteration of Flush's loop up to its submission.
CallRecorded == pc = "loop" /\ pc' = "wait"

\* The step just taken was a whole Flush over an empty call list.
EmptyFlushed ==
    /\ pc = "idle" /\ pc' = "idle"
    /\ ~(ctx.ncalls > 0)
    /\ lastOp'.op = "Flush"

\* The step just taken was a DeleteTexture.
TextureDeleted == pc = "idle" /\ lastOp'.op = "DeleteTexture"

\* The positions, in a command list, of the fragment uniform bindings: one
\* per SetUniforms call, in order.
SubpassPositions(cmds) ==
    SelectSeq([p \in 1 .. Len(cmds) |-> p],
              LAMBDA p : cmds[p].op = "bindUniformBuffer" /\ cmds[p].stage = "Fragment")

\* The positions of the commands recorded for the k-th sub-pass: from its
\* uniform binding to the command before the next sub-pass's.
SubpassRange(cmds, k) ==
    LET pos == SubpassPositions(cmds)
    IN  pos[k] .. (IF k < Len(pos) THEN pos[k + 1] - 2 ELSE Len(cmds))

----------------------------------------------------------------------------
\* C1: the ids CreateTexture returns are strictly increasing in call order,
\* so none is returned twice, whatever DeleteTexture calls come in between.
C1_IdsStrictlyIncreasing ==
    \A i, j \in 1 .. Len(returnedIds) : i < j => returnedIds[i] < returnedIds[j]

\* CreateTexture has just returned, after an earlier texture was deleted.
C1_CreatedAfterDelete ==
    /\ lastOp.op = "CreateTexture"
    /\ Len(returnedIds) >= 2
    /\ \E k \in 1 .. Len(returnedIds) : returnedIds[k] \notin RegisteredIds

----------------------------------------------------------------------------
\* C2: in every reachable state no non-zero id appears in two different
\* entries of the slot mapping table.
C2_IdInAtMostOneSlot ==
    \A a, b \in Slots :
        (a # b /\ imageDescriptorMappings[a] # 0)
            => imageDescriptorMappings[a] # imageDescriptorMappings[b]

----------------------------------------------------------------------------
\* C3: once Acquire(tex, id) has returned slot s, every later Acquire(tex, id)
\* with no Release(id) in between returns s and records neither a
\* descriptor update nor a barrier.
C3_HeldSlotIsReturned ==
    [][ \A k \in 1 .. Len(acq') :
            LET h == HeldAfter(held, SubSeq(acq', 1, k - 1))
                a == acq'[k]
            IN  (a.registered /\ h[a.image] # -1)
                    => (a.ret = h[a.image] /\ ~a.miss) ]_vars

----------------------------------------------------------------------------
\* C4: once DeleteTexture(id) has returned found, in every reachable state
\* the id is not registered (GetTextureDescriptor(id) is null) and no entry
\* of the whole slot mapping table is mapped to it.
C4_DeletedIdIsUnmapped ==
    /\ (lastOp.op = "DeleteTexture" /\ lastOp.ret = 1)
           => lastOp.image \notin RegisteredIds
    /\ \A k \in 1 .. Len(returnedIds) :
           returnedIds[k] \notin RegisteredIds
               => /\ GetTextureDescriptor(textures, returnedIds[k]) = nullptr
                  /\ \A desc \in Slots : imageDescriptorMappings[desc] # returnedIds[k]

----------------------------------------------------------------------------
\* C5: DeleteTexture(id) of an id that is not registered returns 0 and
\* leaves the texture registry, every entry of the slot mapping table and
\* the high-water mark unchanged.
C5_DeleteUnregisteredChangesNothing ==
    [][ (TextureDeleted /\ FindTexture(textures, lastOp'.image) = nullptr)
            => /\ lastOp'.ret = 0
               /\ textures' = textures
               /\ imageDescriptorMappings' = imageDescriptorMappings
               /\ lastImageDescriptor' = lastImageDescriptor ]_vars

\* DeleteTexture has just returned not-found for an id that a slot of the
\* table is mapped to.
C5_DeletedUnregisteredMapped ==
    /\ lastOp.op = "DeleteTexture"
    /\ lastOp.ret = 0
    /\ lastOp.image # 0
    /\ \E desc \in Slots : imageDescriptorMappings[desc] = lastOp.image

----------------------------------------------------------------------------
\* C6: when the calls of one Flush reference more than MaxImages distinct
\* registered textures, the acquisition for the (MaxImages+1)-th distinct
\* texture returns -1.  Stated in the reading most favourable to the
\* program: the MaxImages distinct textures referenced before it in the
\* Flush all got a slot.
C6_NextDistinctTextureFails ==
    [][ \A k \in 1 .. Len(acq') :
            (/\ acq'[k].registered
             /\ \A n \in 1 .. k - 1 : ~acq'[n].registered
             /\ acq'[k].image \notin { t.image : t \in frameTextures }
             /\ Cardinality({ t.image : t \in frameTextures }) = MaxImages
             /\ \A t \in frameTextures : t.served)
                => acq'[k].ret = -1 ]_vars

----------------------------------------------------------------------------
\* C7: when a sub-pass's image is not registered, or its acquisition fails,
\* no texture-bind command is recorded for the sub-pass, the call's draws
\* are recorded and submitted all the same, and Flush goes on to the
\* remaining calls.
C7_FailedBindIsSkipped ==
    [][ /\ CallRecorded =>
              LET cmds == queue'[Len(queue')]
              IN  /\ Len(queue') = Len(queue) + 1
                  /\ Len(SubpassPositions(cmds)) = Len(acq')
                  /\ \A k \in 1 .. Len(acq') :
                         (~acq'[k].registered \/ acq'[k].ret = -1)
                             => /\ \A p \in SubpassRange(cmds, k) :
                                       cmds[p].op # "bindTextures"
                                /\ \E p \in SubpassRange(cmds, k) :
                                       cmds[p].op = "draw"
        /\ (pc = "wait" /\ pc' # "wait") =>
              /\ callIndex' = callIndex + 1
              /\ pc' = IF callIndex' < ctx.ncalls THEN "loop" ELSE "reset" ]_vars

\* The first call of a frame of several has just been submitted: a fill
\* whose stencil sub-pass has no image and whose cover sub-pass failed to
\* acquire a slot for a registered texture.
C7_FailedInFirstCall ==
    /\ pc = "wait"
    /\ queue # <<>>
    /\ callIndex + 1 < ctx.ncalls
    /\ Len(acq) = 2
    /\ ~acq[1].registered
    /\ acq[2].registered /\ acq[2].ret = -1

----------------------------------------------------------------------------
\* C8: Flush takes the calls in list order; each call's commands are
\* submitted and the queue is waited idle before anything of the next call
\* is recorded; over n calls there are exactly n submissions, each followed
\* at once by its wait.
C8_SubmitAndWaitPerCall ==
    /\ Len(queue) <= 1
    /\ pc = "idle" => queue = <<>>
    /\ pc = "loop" => /\ queue = <<>>
                      /\ callIndex < ctx.ncalls
                      /\ nSubmit = callIndex /\ nWaitIdle = callIndex
    /\ pc = "wait" => /\ nSubmit = callIndex + 1 /\ nWaitIdle = callIndex
                      /\ dynCmdBuf = <<>>
                      /\ \A l \in 1 .. Len(queue) : \A p \in 1 .. Len(queue[l]) :
                             (queue[l][p].op = "pushConstants"
                                  /\ queue[l][p].buf = "fragUniformBuffer")
                                 => queue[l][p].src \in
                                        { CallAt(callIndex, 0, 0).uniformOffset,
                                          CallAt(callIndex, 0, 0).uniformOffset + ctx.fragSize }
    /\ pc = "reset" => /\ queue = <<>>
                       /\ callIndex = ctx.ncalls
                       /\ nSubmit = ctx.ncalls /\ nWaitIdle = ctx.ncalls

\* The loop of a Flush over MaxCalls calls has ended.
C8_AllCallsSubmitted ==
    /\ pc = "reset"
    /\ ctx.ncalls = MaxCalls
    /\ nSubmit = MaxCalls /\ nWaitIdle = MaxCalls

----------------------------------------------------------------------------
\* C9: a Flush with ncalls = 0 records no command, submits nothing, leaves
\* the vertex buffer and the slot table alone and returns with nverts,
\* npaths, ncalls and nuniforms all 0.
C9_EmptyFlushOnlyResets ==
    [][ EmptyFlushed
            => /\ dynCmdBuf' = dynCmdBuf
               /\ queue' = queue
               /\ nSubmit' = nSubmit
               /\ vertexBuffer' = vertexBuffer
               /\ imageDescriptorMappings' = imageDescriptorMappings
               /\ lastImageDescriptor' = lastImageDescriptor
               /\ ctx'.nverts = 0 /\ ctx'.npaths = 0
               /\ ctx'.ncalls = 0 /\ ctx'.nuniforms = 0 ]_vars

\* An empty Flush has just returned in a renderer that holds a vertex
\* buffer and a mapped slot from an earlier frame.
C9_EmptyFlushReturned ==
    /\ pc = "idle"
    /\ lastOp.op = "Flush" /\ lastOp.ncalls = 0
    /\ vertexBuffer # <<>>
    /\ \E desc \in Slots : imageDescriptorMappings[desc] # 0

----------------------------------------------------------------------------
\* C10: when a Flush returns, empty or not, nverts, npaths, ncalls and
\* nuniforms are 0, and from its entry to its return the capacities, the
\* array pointers, flags, fragSize and the texture registry do not change.
C10_FlushResetsCountersOnly ==
    [][ /\ (pc = "reset" \/ EmptyFlushed)
            => /\ ctx'.nverts = 0 /\ ctx'.npaths = 0
               /\ ctx'.ncalls = 0 /\ ctx'.nuniforms = 0
               /\ ctx'.ccalls = ctx.ccalls /\ ctx'.cpaths = ctx.cpaths
               /\ ctx'.cverts = ctx.cverts /\ ctx'.cuniforms = ctx.cuniforms
               /\ ctx'.calls = ctx.calls /\ ctx'.paths = ctx.paths
               /\ ctx'.verts = ctx.verts /\ ctx'.uniforms = ctx.uniforms
               /\ ctx'.flags = ctx.flags /\ ctx'.fragSize = ctx.fragSize
               /\ textures' = textures
        /\ ((pc = "idle" /\ pc' = "loop") \/ pc = "loop" \/ pc = "wait")
            => (ctx' = ctx /\ textures' = textures) ]_vars

\* A Flush over MaxCalls calls has just returned, with a texture registered.
C10_FullFlushReturned ==
    /\ pc = "idle"
    /\ lastOp.op = "Flush" /\ lastOp.ncalls = MaxCalls
    /\ FrameEmpty
    /\ textures # <<>>
    /\ ctx.ccalls = MaxCalls /\ ctx.flags = DemoFlags

\* The command list of the call the last step recorded, and its
\* depth-stencil bindings, color-write bindings and draws in recorded order.
DrawnCmds == queue[Len(queue)]

DrawnPasses ==
    SelectSeq(DrawnCmds, LAMBDA cmd : cmd.op \in { "bindDepthStencilState",
                                                   "bindColorWriteState", "draw" })

DrawnStencilBindings ==
    SelectSeq(DrawnCmds, LAMBDA cmd : cmd.op = "bindDepthStencilState")

AntialiasedFillDrawn ==
    /\ drawn # nullptr
    /\ drawn.type = DKNVG_FILL
    /\ HasFlag(ctx.flags, NVG_ANTIALIAS)

\* C11: a Fill call recorded with antialiasing on issues, in this order, the
\* stencil pass with color writes off (compare Always, pass op IncrWrap on
\* front faces and DecrWrap on back faces) drawing each sub-path's fill range
\* as a triangle fan; then, with color writes on again, the stencil-Equal
\* pass with every op Keep drawing each sub-path's stroke range as a triangle
\* strip; then the stencil-NotEqual pass with every op Zero drawing the
\* call's triangle range as one triangle strip; and no other draw.
C11_FillPassesInOrder ==
    AntialiasedFillDrawn =>
        LET d == DrawnPasses
            n == drawn.pathCount
            path(i) == PathsArray[drawn.pathOffset + i - 1]
        IN  /\ Len(d) = 2 * n + 7
            /\ d[1].op = "bindDepthStencilState"
            /\ d[1].state.stencilTestEnable
            /\ d[1].state.frontCompareOp = "Always"
            /\ d[1].state.backCompareOp = "Always"
            /\ d[1].state.frontPassOp = "IncrWrap"
            /\ d[1].state.backPassOp = "DecrWrap"
            /\ d[2] = [op |-> "bindColorWriteState", mask |-> 0]
            /\ \A i \in 1 .. n :
                   d[2 + i] = [op |-> "draw", prim |-> "TriangleFan",
                               count |-> path(i).fillCount,
                               first |-> path(i).fillOffset]
            /\ d[n + 3] = [op |-> "bindColorWriteState", mask |-> 15]
            /\ d[n + 4].op = "bindDepthStencilState"
            /\ d[n + 4].state.stencilTestEnable
            /\ d[n + 4].state.frontCompareOp = "Equal"
            /\ d[n + 4].state.backCompareOp = "Equal"
            /\ { d[n + 4].state.frontFailOp, d[n + 4].state.frontDepthFailOp,
                 d[n + 4].state.frontPassOp, d[n + 4].state.backFailOp,
                 d[n + 4].state.backDepthFailOp, d[n + 4].state.backPassOp }
                   = { "Keep" }
            /\ \A i \in 1 .. n :
                   d[n + 4 + i] = [op |-> "draw", prim |-> "TriangleStrip",
                                   count |-> path(i).strokeCount,
                                   first |-> path(i).strokeOffset]
            /\ d[2 * n + 5].op = "bindDepthStencilState"
            /\ d[2 * n + 5].state.stencilTestEnable
            /\ d[2 * n + 5].state.frontCompareOp = "NotEqual"
            /\ d[2 * n + 5].state.backCompareOp = "NotEqual"
            /\ { d[2 * n + 5].state.frontFailOp, d[2 * n + 5].state.frontDepthFailOp,
                 d[2 * n + 5].state.frontPassOp, d[2 * n + 5].state.backFailOp,
                 d[2 * n + 5].state.backDepthFailOp, d[2 * n + 5].state.backPassOp }
                   = { "Zero" }
            /\ d[2 * n + 6] = [op |-> "draw", prim |-> "TriangleStrip",
                               count |-> drawn.triangleCount,
                               first |-> drawn.triangleOffset]
            /\ d[2 * n + 7].op = "bindDepthStencilState"

\* An antialiased Fill call of two sub-paths with a texture has been recorded.
C11_FillOfTwoPathsDrawn ==
    /\ AntialiasedFillDrawn
    /\ drawn.pathCount = 2
    /\ drawn.image = 1
    /\ Len(textures) > 0

\* C12 (as stated): one Fill call recorded with antialiasing on has exactly
\* 3 depth-stencil-state bindings among its commands.
C12_ThreeStencilBindings ==
    AntialiasedFillDrawn => Len(DrawnStencilBindings) = 3

\* C12 (corrected): one Fill call recorded with antialiasing on has exactly
\* 4 depth-stencil-state bindings among its commands: three different states
\* with the stencil test enabled, one per pass, and then the default state.
C12_FourStencilBindings ==
    AntialiasedFillDrawn =>
        LET b == DrawnStencilBindings
        IN  /\ Len(b) = 4
            /\ \A k \in 1 .. 3 : b[k].state.stencilTestEnable
            /\ Cardinality({ b[k].state : k \in 1 .. 3 }) = 3
            /\ b[4].state = [stencilTestEnable |-> FALSE,
                             frontCompareOp |-> "Always", frontFailOp |-> "Keep",
                             frontDepthFailOp |-> "Keep", frontPassOp |-> "Keep",
                             backCompareOp |-> "Always", backFailOp |-> "Keep",
                             backDepthFailOp |-> "Keep", backPassOp |-> "Keep"]

\* An antialiased Fill call of one sub-path has been recorded as the second
\* call of its frame.
C12_SecondFillDrawn ==
    /\ AntialiasedFillDrawn
    /\ drawn.pathCount = 1
    /\ callIndex = 1

\* C13: a ConvexFill call, a Triangles call, and a Stroke call when stencil
\* strokes are off, record no depth-stencil-state binding and no change of
\* the stencil reference, whatever the flags and the number of sub-paths.
C13_NoStencilOutsideStencilledCalls ==
    (/\ drawn # nullptr
     /\ \/ drawn.type \in { DKNVG_CONVEXFILL, DKNVG_TRIANGLES }
        \/ drawn.type = DKNVG_STROKE /\ ~HasFlag(ctx.flags, NVG_STENCIL_STROKES))
    => \A k \in 1 .. Len(DrawnCmds) :
           DrawnCmds[k].op \notin { "bindDepthStencilState", "setStencil" }

\* A ConvexFill call of two sub-paths has been recorded with both flags set.
C13_ConvexFillOfTwoPathsDrawn ==
    /\ drawn # nullptr
    /\ drawn.type = DKNVG_CONVEXFILL
    /\ drawn.pathCount = 2
    /\ ctx.flags = NVG_ANTIALIAS + NVG_STENCIL_STROKES

\* C14: UpdateTexture with data on a registered texture of width W with B
\* bytes per pixel (4 for RGBA, 1 otherwise) submits one copy of the region
\* x = 0, y, width W, height h, of W*h*B bytes read at byte y*W*B of the
\* caller's data, whatever x and w the caller passed, and then returns 1; it
\* returns without an upload only when data is null.
C14_UpdateUploadsWholeRows ==
    [][ /\ (/\ pc = "idle" /\ pc' = "upload" /\ inCall'.op = "UpdateTexture"
            /\ inCall'.data # nullptr) =>
               LET t == FindTexture(textures, inCall'.image)
                   B == IF t.type = NVG_TEXTURE_RGBA THEN 4 ELSE 1
               IN  queue' = Append(queue,
                       << [op |-> "copyBufferToImage",
                           src |-> [null |-> FALSE,
                                    off |-> inCall'.data.off + inCall'.y * t.width * B],
                           size |-> t.width * inCall'.h * B,
                           x |-> 0, y |-> inCall'.y, z |-> 0,
                           width |-> t.width, height |-> inCall'.h, depth |-> 1] >>)
        /\ (pc = "upload" /\ pc' = "idle" /\ inCall.op = "UpdateTexture") =>
               lastOp'.op = "UpdateTexture" /\ lastOp'.ret = 1
        /\ (/\ pc = "idle"
            /\ lastOp' # lastOp
            /\ lastOp'.op = "UpdateTexture"
            /\ FindTexture(textures, lastOp'.image) # nullptr) =>
               lastOp'.data = nullptr
      ]_vars

\* UpdateTexture of row 1 of the 2 x 2 RGBA texture is waiting for its
\* upload, called with x = 1 and w = 1.
C14_RowOneUploadPending ==
    /\ pc = "upload"
    /\ inCall.op = "UpdateTexture"
    /\ inCall.x = 1 /\ inCall.w = 1 /\ inCall.y = 1
    /\ FindTexture(textures, inCall.image).type = NVG_TEXTURE_RGBA
    /\ queue # <<>>

\* C15: UpdateTexture, GetTextureSize and GetTextureDescriptor called with
\* an id that is not registered return 0 (the descriptor: null), submit
\* nothing, change nothing of the renderer and the context, and
\* GetTextureSize leaves the caller's w and h as they were.
C15_UnregisteredIdChangesNothing ==
    [][ (/\ pc = "idle"
         /\ lastOp' # lastOp
         /\ lastOp'.op \in { "UpdateTexture", "GetTextureSize", "GetTextureDescriptor" }
         /\ \A k \in 1 .. Len(textures) : textures[k].id # lastOp'.image) =>
            /\ lastOp'.op = "GetTextureDescriptor" => lastOp'.ret = [null |-> TRUE]
            /\ lastOp'.op # "GetTextureDescriptor" => lastOp'.ret = 0
            /\ lastOp'.op = "GetTextureSize" =>
                   lastOp'.w = lastOp'.w0 /\ lastOp'.h = lastOp'.h0
            /\ lastOp'.op = "UpdateTexture" => lastOp'.submits = 0
            /\ UNCHANGED << nextTextureId, textures, imageDescriptorMappings,
                            lastImageDescriptor, vertexBuffer, dynCmdBuf, queue,
                            ctx, pc, inCall, imageMemPool, callIndex, nSubmit, nWaitIdle >>
      ]_vars

\* GetTextureSize has been called with the id of a deleted texture while
\* another texture is registered.
C15_SizeOfDeletedRequested ==
    /\ lastOp.op = "GetTextureSize"
    /\ lastOp.ret = 0
    /\ \E k \in 1 .. Len(returnedIds) : returnedIds[k] = lastOp.image
    /\ Len(textures) > 0

\* C16: CreateTexture registers the texture with the width and height it
\* was given, with or without data; no operation changes the width or height
\* of a texture that stays registered; and GetTextureSize on a registered id
\* returns 1 with the registered width and height.
C16_SizeIsAsCreated ==
    [][ /\ \A k \in 1 .. Len(textures) : \A j \in 1 .. Len(textures') :
               textures'[j].id = textures[k].id =>
                   /\ textures'[j].width = textures[k].width
                   /\ textures'[j].height = textures[k].height
        /\ (lastOp'.op = "CreateTexture" /\ Len(textures') = Len(textures) + 1) =>
               /\ textures'[Len(textures')].id = lastOp'.ret
               /\ textures'[Len(textures')].width = lastOp'.w
               /\ textures'[Len(textures')].height = lastOp'.h
        /\ (lastOp' # lastOp /\ lastOp'.op = "GetTextureSize") =>
               \A k \in 1 .. Len(textures) :
                   textures[k].id = lastOp'.image =>
                       /\ lastOp'.ret = 1
                       /\ lastOp'.w = textures[k].width
                       /\ lastOp'.h = textures[k].height
      ]_vars

\* GetTextureSize has returned the size of the 3 x 1 texture after a Flush
\* and after another texture was deleted.
C16_SizeOfWideTextureReturned ==
    /\ lastOp.op = "GetTextureSize"
    /\ lastOp.ret = 1
    /\ lastOp.w = 3 /\ lastOp.h = 1
    /\ vertexBuffer # <<>>
    /\ Len(returnedIds) > Len(textures)

\* C17: the k-th CreateTexture returns k (the first returns 1, each later
\* one the previous id plus 1); no registered texture has id 0, and id 0
\* resolves to no texture.
C17_IdsCountFromOne ==
    /\ \A k \in 1 .. Len(returnedIds) : returnedIds[k] = k
    /\ \A k \in 1 .. Len(textures) : textures[k].id # 0
    /\ FindTexture(textures, 0) = [null |-> TRUE]
    /\ GetTextureDescriptor(textures, 0) = [null |-> TRUE]

\* Three textures have been created and only one is still registered.
C17_ThreeCreatedOneLeft ==
    /\ Len(returnedIds) >= 3
    /\ Len(textures) = 1

\* C18: an upload (CreateTexture with data, UpdateTexture with data on a
\* registered id) makes exactly one queue submission, nothing more is
\* submitted while it waits, and the operation returns only once the queue
\* is idle; CreateTexture with data always takes this path, and CreateTexture
\* without data returns at once with no submission.
C18_UploadSubmittedOnceAndWaited ==
    [][ /\ (pc = "idle" /\ pc' = "upload") =>
               Len(queue') = Len(queue) + 1 /\ nSubmit' = 1
        /\ pc = "upload" =>
               /\ pc' \in { "upload", "idle" }
               /\ queue' = queue \/ (queue # <<>> /\ queue' = Tail(queue))
        /\ (pc = "upload" /\ pc' = "idle") =>
               /\ queue = <<>> /\ queue' = <<>>
               /\ lastOp'.op \in { "CreateTexture", "UpdateTexture" }
               /\ lastOp'.submits = 1 /\ lastOp'.waits = 1
        /\ (lastOp'.op = "CreateTexture" /\ Len(textures') = Len(textures) + 1) =>
               IF lastOp'.data = [null |-> TRUE]
               THEN pc = "idle" /\ queue' = queue /\ lastOp'.submits = 0
               ELSE pc = "upload"
        /\ (/\ lastOp' # lastOp
            /\ lastOp'.op = "UpdateTexture"
            /\ lastOp'.ret = 1
            /\ lastOp'.data # [null |-> TRUE]) => pc = "upload"
      ]_vars

\* UpdateTexture has returned after its one submission and its wait.
C18_UpdateReturnedAfterUpload ==
    /\ pc = "idle"
    /\ lastOp.op = "UpdateTexture"
    /\ lastOp.submits = 1
    /\ lastOp.waits = 1

\* Position u of the command list holds the descriptor update of slot s for
\* texture id, and position u + 1 the barrier that invalidates descriptors.
UpdateAndBarrierAt(cmds, u, s, id) ==
    /\ u + 1 <= Len(cmds)
    /\ cmds[u] = [op |-> "updateDescriptor", slot |-> s, texture |-> id]
    /\ cmds[u + 1] = [op |-> "barrier", invalidate |-> "Descriptors"]

\* C19: a step that maps a slot to a texture id records, in the command
\* list it submits, the descriptor update of that slot followed by the
\* descriptor-invalidating barrier, before every texture bind of that slot in
\* the list; and every texture bind uses a slot mapped to the call's image
\* that either was mapped to it before the step or has its update and
\* barrier recorded earlier in the list.
C19_UpdateAndBarrierBeforeBind ==
    [][ /\ \A s \in Slots :
               (/\ imageDescriptorMappings'[s] # imageDescriptorMappings[s]
                /\ imageDescriptorMappings'[s] # 0) =>
                   /\ drawn' # [null |-> TRUE]
                   /\ \E u \in 1 .. Len(queue'[Len(queue')]) :
                          /\ UpdateAndBarrierAt(queue'[Len(queue')], u, s,
                                                imageDescriptorMappings'[s])
                          /\ \A k \in 1 .. Len(queue'[Len(queue')]) :
                                 (/\ queue'[Len(queue')][k].op = "bindTextures"
                                  /\ queue'[Len(queue')][k].imageDescId = s)
                                     => k > u + 1
        /\ drawn' # [null |-> TRUE] =>
               \A k \in 1 .. Len(queue'[Len(queue')]) :
                   queue'[Len(queue')][k].op = "bindTextures" =>
                       LET s == queue'[Len(queue')][k].imageDescId
                       IN  /\ s \in Slots
                           /\ imageDescriptorMappings'[s] = drawn'.image
                           /\ \/ imageDescriptorMappings[s] = drawn'.image
                              \/ \E u \in 1 .. k - 2 :
                                     UpdateAndBarrierAt(queue'[Len(queue')], u, s,
                                                        drawn'.image)
      ]_vars

\* A call has taken slot 0 on the miss path while slot 1 is mapped: slot 0
\* was mapped before, was freed, and is now bound for another id.
C19_FreedSlotBoundAgain ==
    /\ drawn # nullptr
    /\ \E k \in 1 .. Len(acq) : acq[k].miss /\ acq[k].ret = 0
    /\ imageDescriptorMappings[1] # 0
    /\ \E k \in 1 .. Len(DrawnCmds) : DrawnCmds[k].op = "bindTextures"

\* C20: lastImageDescriptor never decreases, and it changes only in a step
\* with a cache miss whose slot index is larger than the mark was.
C20_MarkNeverDecreases ==
    [][ /\ lastImageDescriptor' >= lastImageDescriptor
        /\ lastImageDescriptor' # lastImageDescriptor =>
               \E k \in 1 .. Len(acq') :
                   acq'[k].miss /\ acq'[k].ret > lastImageDescriptor
      ]_vars

\* The last command of the given kind recorded before position k of the
\* list (nullptr when there is none), and the positions of the list's draws.
BoundBefore(cmds, k, op) ==
    LET js == { j \in 1 .. k - 1 : cmds[j].op = op }
    IN  IF js = {} THEN nullptr
        ELSE cmds[CHOOSE j \in js : \A i \in js : i <= j]

DrawPositions(cmds) ==
    SelectSeq([p \in 1 .. Len(cmds) |-> p], LAMBDA p : cmds[p].op = "draw")

StencilStrokeDrawn ==
    /\ drawn # nullptr
    /\ drawn.type = DKNVG_STROKE
    /\ HasFlag(ctx.flags, NVG_STENCIL_STROKES)

\* C21: in a Stroke call recorded with stencil strokes on, every draw of the
\* third round of sub-path strips comes after a depth-stencil binding, still
\* in force, whose compare op is Always and whose stencil ops are all Zero.
C21_ThirdRoundClearsStencil ==
    StencilStrokeDrawn =>
        LET pos == DrawPositions(DrawnCmds)
            n == drawn.pathCount
        IN  /\ Len(pos) = 3 * n
            /\ \A i \in 2 * n + 1 .. 3 * n :
                   LET b == BoundBefore(DrawnCmds, pos[i], "bindDepthStencilState")
                   IN  /\ b # nullptr
                       /\ b.state.stencilTestEnable
                       /\ b.state.frontCompareOp = "Always"
                       /\ b.state.frontFailOp = "Zero"
                       /\ b.state.frontDepthFailOp = "Zero"
                       /\ b.state.frontPassOp = "Zero"

\* The triangle fans among the draws of the recorded call, by position.
FanPositions ==
    SelectSeq(DrawPositions(DrawnCmds), LAMBDA p : DrawnCmds[p].prim = "TriangleFan")

FillDrawn == drawn # nullptr /\ drawn.type = DKNVG_FILL

\* C22 (as stated): a Fill call draws each sub-path's fill range as a
\* triangle fan twice, first with color writes off and again after color
\* writes are back on.
C22_FansDrawnTwice ==
    FillDrawn =>
        LET n == drawn.pathCount
        IN  /\ Len(FanPositions) = 2 * n
            /\ \A i \in 1 .. 2 * n :
                   /\ DrawnCmds[FanPositions[i]].first =
                          PathsArray[drawn.pathOffset + ((i - 1) % n)].fillOffset
                   /\ BoundBefore(DrawnCmds, FanPositions[i], "bindColorWriteState").mask
                          = (IF i <= n THEN 0 ELSE 15)

\* C22 (corrected): a Fill call draws each sub-path's fill range as a
\* triangle fan exactly once, with color writes off; every draw recorded
\* after color writes are back on is a triangle strip.
C22_FansDrawnOnce ==
    FillDrawn =>
        LET n == drawn.pathCount
            pos == DrawPositions(DrawnCmds)
        IN  /\ Len(FanPositions) = n
            /\ \A i \in 1 .. n :
                   /\ DrawnCmds[FanPositions[i]] =
                          [op |-> "draw", prim |-> "TriangleFan",
                           count |-> PathsArray[drawn.pathOffset + i - 1].fillCount,
                           first |-> PathsArray[drawn.pathOffset + i - 1].fillOffset]
                   /\ BoundBefore(DrawnCmds, FanPositions[i], "bindColorWriteState").mask = 0
            /\ \A i \in 1 .. Len(pos) :
                   BoundBefore(DrawnCmds, pos[i], "bindColorWriteState").mask # 0
                       => DrawnCmds[pos[i]].prim = "TriangleStrip"

\* A Fill call of two sub-paths has been recorded without antialiasing.
C22_PlainFillOfTwoPathsDrawn ==
    /\ FillDrawn
    /\ drawn.pathCount = 2
    /\ ~HasFlag(ctx.flags, NVG_ANTIALIAS)

\* C23: the blend state bound for a call has the four factors srcRGB,
\* dstRGB, srcAlpha and dstAlpha of the call's blendFunc.
C23_BlendFactorsAreTheCalls ==
    drawn # nullptr =>
        \A k \in 1 .. Len(DrawnCmds) :
            DrawnCmds[k].op = "bindBlendStates" =>
                /\ DrawnCmds[k].srcRGB = drawn.blendFunc.srcRGB
                /\ DrawnCmds[k].dstRGB = drawn.blendFunc.dstRGB
                /\ DrawnCmds[k].srcAlpha = drawn.blendFunc.srcAlpha
                /\ DrawnCmds[k].dstAlpha = drawn.blendFunc.dstAlpha

\* C24: in the command list of every call, whatever its type and the flags,
\* the last depth-stencil binding (if any) binds the default state, the last
\* color-write binding (if any) the default mask and the last rasterizer
\* binding (if any) the default state, so each list is submitted, and the
\* next one starts, under the defaults; and the only draws recorded while
\* color writes are off are the triangle fans of a Fill call.
C24_DefaultsAtSubmission ==
    drawn # nullptr =>
        LET end == Len(DrawnCmds) + 1
            ds == BoundBefore(DrawnCmds, end, "bindDepthStencilState")
            cw == BoundBefore(DrawnCmds, end, "bindColorWriteState")
            rz == BoundBefore(DrawnCmds, end, "bindRasterizerState")
            pos == DrawPositions(DrawnCmds)
        IN  /\ ds # nullptr =>
                   ds.state = [stencilTestEnable |-> FALSE,
                               frontCompareOp |-> "Always", frontFailOp |-> "Keep",
                               frontDepthFailOp |-> "Keep", frontPassOp |-> "Keep",
                               backCompareOp |-> "Always", backFailOp |-> "Keep",
                               backDepthFailOp |-> "Keep", backPassOp |-> "Keep"]
            /\ cw # nullptr => cw.mask = 15
            /\ rz # nullptr => rz.cullMode = "Back"
            /\ drawn.type \in { DKNVG_FILL, DKNVG_STROKE } \/ ds = nullptr
            /\ drawn.type = DKNVG_FILL \/ (cw = nullptr /\ rz = nullptr)
            /\ \A i \in 1 .. Len(pos) :
                   LET m == BoundBefore(DrawnCmds, pos[i], "bindColorWriteState")
                   IN  (m # nullptr /\ m.mask = 0) =>
                           /\ drawn.type = DKNVG_FILL
                           /\ DrawnCmds[pos[i]].prim = "TriangleFan"

\* A stencilled Stroke call has been recorded as the second call of a frame
\* with antialiasing off.
C24_SecondStencilStrokeDrawn ==
    /\ StencilStrokeDrawn
    /\ ~HasFlag(ctx.flags, NVG_ANTIALIAS)
    /\ callIndex = 1
    /\ drawn.pathCount = 1

\* The offset in ctx->uniforms of the uniform block in force at position k.
UniformsBefore(cmds, k) == BoundBefore(cmds, k, "pushConstants").src

\* C25: a Stroke call over n sub-paths records, with stencil strokes on,
\* exactly 3n draws, three rounds of the n stroke ranges as triangle strips,
\* round 1 under the block at uniformOffset + fragSize and the Equal / Incr
\* state, round 2 under the block at uniformOffset and the Equal / Keep
\* state; with stencil strokes off, exactly the n strips under the block at
\* uniformOffset.
C25_StrokeRounds ==
    (drawn # nullptr /\ drawn.type = DKNVG_STROKE) =>
        LET pos == DrawPositions(DrawnCmds)
            n == drawn.pathCount
            strip(i) == [op |-> "draw", prim |-> "TriangleStrip",
                         count |-> PathsArray[drawn.pathOffset + i - 1].strokeCount,
                         first |-> PathsArray[drawn.pathOffset + i - 1].strokeOffset]
            ds(i) == BoundBefore(DrawnCmds, pos[i], "bindDepthStencilState").state
        IN  IF HasFlag(ctx.flags, NVG_STENCIL_STROKES)
            THEN /\ Len(pos) = 3 * n
                 /\ \A i \in 1 .. 3 * n : DrawnCmds[pos[i]] = strip(((i - 1) % n) + 1)
                 /\ \A i \in 1 .. n :
                        /\ UniformsBefore(DrawnCmds, pos[i])
                               = drawn.uniformOffset + ctx.fragSize
                        /\ ds(i).stencilTestEnable
                        /\ ds(i).frontCompareOp = "Equal"
                        /\ ds(i).frontPassOp = "Incr"
                 /\ \A i \in n + 1 .. 2 * n :
                        /\ UniformsBefore(DrawnCmds, pos[i]) = drawn.uniformOffset
                        /\ ds(i).stencilTestEnable
                        /\ ds(i).frontCompareOp = "Equal"
                        /\ ds(i).frontPassOp = "Keep"
            ELSE /\ Len(pos) = n
                 /\ \A i \in 1 .. n :
                        /\ DrawnCmds[pos[i]] = strip(i)
                        /\ UniformsBefore(DrawnCmds, pos[i]) = drawn.uniformOffset

\* A stencilled Stroke call of two sub-paths has been recorded.
C25_StencilStrokeOfTwoPathsDrawn ==
    /\ StencilStrokeDrawn
    /\ drawn.pathCount = 2

\* C26: a Flush with calls leaves exactly one vertex buffer block live, the
\* new one of nverts * sizeof(NVGvertex) bytes, the previous block having
\* been destroyed; at no time is more than one block live, the live block is
\* the one the renderer holds, and after teardown none is live.
C26_OneVertexBufferLive ==
    [][ /\ (pc = "idle" /\ pc' = "loop") =>
               /\ vertexBuffer' = << ctx.nverts * SizeofNVGvertex >>
               /\ dataMemPool' = << ctx.nverts * SizeofNVGvertex >>
        /\ Len(dataMemPool) <= 1 /\ Len(dataMemPool') <= 1
        /\ pc' # "destroyed" => dataMemPool' = vertexBuffer'
        /\ pc' = "destroyed" => dataMemPool' = <<>>
      ]_vars

\* The renderer has been torn down after a Flush of MaxCalls calls.
C26_DestroyedAfterFlush ==
    /\ pc = "destroyed"
    /\ vertexBuffer = << MaxCalls * 3 * SizeofNVGvertex >>

\* C27: when a Flush with calls is about to return it has called
\* dynCmdMem.begin exactly once and dynCmdMem.end exactly once, whatever the
\* number of calls.
C27_OneBeginOneEndPerFlush ==
    pc = "reset" => dynCmdMem.begins = 1 /\ dynCmdMem.ends = 1

\* C28: commands are recorded into the command memory (the setup commands
\* when Flush begins, a call's commands in the loop) only when the queue has
\* retired every list submitted before, so never into a region that holds
\* commands the queue has not finished.
C28_NoRecordingWhileQueueBusy ==
    [][ (\/ dynCmdBuf' # dynCmdBuf
         \/ pc = "idle" /\ pc' = "loop"
         \/ pc = "loop" /\ pc' = "wait") => queue = <<>>
      ]_vars

\* The second call of a frame has been recorded and submitted, and the
\* queue has not retired it yet.
C28_SecondCallInFlight ==
    /\ pc = "wait"
    /\ callIndex = 1
    /\ Len(queue) = 1
    /\ dynCmdMem.ends = 2

\* C29: when the first lookup of a call for a registered texture finds the
\* id in no slot of 0..mark, the slot chosen is the lowest unmapped slot of
\* 0..mark if there is one and mark + 1 otherwise; the lookup returns -1
\* exactly when that index is >= MaxImages, and the chosen index otherwise.
C29_MissTakesLowestFreeSlot ==
    [][ drawn' # [null |-> TRUE] =>
            \A k \in 1 .. Len(acq') :
                (/\ acq'[k].registered
                 /\ \A j \in 1 .. k - 1 : ~acq'[j].registered
                 /\ \A s \in 0 .. lastImageDescriptor :
                        imageDescriptorMappings[s] # acq'[k].image) =>
                    LET free == { s \in 0 .. lastImageDescriptor :
                                      imageDescriptorMappings[s] = 0 }
                        chosen == IF free # {}
                                  THEN CHOOSE s \in free : \A t \in free : s <= t
                                  ELSE lastImageDescriptor + 1
                    IN  /\ acq'[k].ret = -1 <=> chosen >= MaxImages
                        /\ acq'[k].ret # -1 =>
                               /\ acq'[k].ret = chosen
                               /\ acq'[k].miss
      ]_vars

\* A miss has taken slot 0, below the mark, while the slot above it stays
\* mapped to another texture.
C29_HoleBelowMarkTaken ==
    /\ drawn # nullptr
    /\ \E k \in 1 .. Len(acq) :
           /\ acq[k].miss
           /\ acq[k].ret = 0
           /\ imageDescriptorMappings[1] \notin { 0, acq[k].image }

\* C30: the release made by DeleteTexture(id) sets to 0 the slots of
\* 0..mark mapped to id and leaves every other slot, the mark, the recorded
\* commands and the queue as they were.
C30_ReleaseClearsOnlyItsSlots ==
    [][ TextureDeleted =>
            /\ \A s \in Slots :
                   imageDescriptorMappings'[s] =
                       IF s <= lastImageDescriptor
                          /\ imageDescriptorMappings[s] = lastOp'.image
                       THEN 0 ELSE imageDescriptorMappings[s]
            /\ lastImageDescriptor' = lastImageDescriptor
            /\ dynCmdBuf' = dynCmdBuf
            /\ queue' = queue
            /\ nSubmit' = nSubmit
      ]_vars

\* DeleteTexture of a registered texture has returned with slot 0 free below
\* the mark and slot 1 still mapped.
C30_SlotBelowMarkReleased ==
    /\ lastOp.op = "DeleteTexture"
    /\ lastOp.ret = 1
    /\ lastImageDescriptor = 1
    /\ imageDescriptorMappings[0] = 0
    /\ imageDescriptorMappings[1] # 0

\* C31: outside a CreateTexture that is waiting for its upload, the live
\* image allocations are exactly those of the registered textures, one per
\* texture: CreateTexture adds one, DeleteTexture of a registered id releases
\* that texture's and no other, DeleteTexture of any other id releases none,
\* and the destruction of the renderer releases all that are left.
C31_ImageAllocationsAreRegistered ==
    [][ /\ pc' # "upload" => /\ imageMemPool' = { textures'[k].id : k \in 1 .. Len(textures') }
                             /\ Cardinality(imageMemPool') = Len(textures')
        /\ lastOp'.op = "CreateTexture" =>
               /\ Cardinality(imageMemPool') = Cardinality(imageMemPool \ { lastOp'.ret }) + 1
               /\ lastOp'.ret \in imageMemPool'
        /\ TextureDeleted =>
               imageMemPool' = imageMemPool \ { lastOp'.image }
        /\ (TextureDeleted /\ lastOp'.ret = 1) => lastOp'.image \in imageMemPool
        /\ lastOp'.op = "Destroy" => imageMemPool' = {}
      ]_vars

\* The renderer has been destroyed after three textures had been created,
\* and no image allocation is left.
C31_DestroyedWithTextures ==
    /\ pc = "destroyed"
    /\ Len(returnedIds) = 3
    /\ nextTextureId = 4
    /\ imageMemPool = {}

----------------------------------------------------------------------------
\* Bit n of a word of image flags or of a sampler selector.
BitSet(word, n) == (word \div (2 ^ n)) % 2 = 1

\* The selector the claim describes for a word of image flags.
SelectorOf(imageFlags) ==
    /\ LET sel == SamplerId(imageFlags)
       IN  /\ sel \in 0 .. 15
           /\ BitSet(sel, 0) <=> BitSet(imageFlags, 0)
           /\ BitSet(sel, 1) <=> BitSet(imageFlags, 5)
           /\ BitSet(sel, 2) <=> BitSet(imageFlags, 1)
           /\ BitSet(sel, 3) <=> BitSet(imageFlags, 2)

\* C32: the sampler selector bound with a texture lies in 0..15; its bit 0
\* is set iff the texture has the mipmap flag (1), bit 1 iff nearest (32),
\* bit 2 iff repeat-x (2), bit 3 iff repeat-y (4), whatever the other flags
\* are; and the handle bound combines it with the slot Acquire returned for
\* the same image id in the same SetUniforms call.
C32_SelectorFromFlags ==
    [][ CallRecorded =>
            LET cmds == queue'[Len(queue')]
            IN  /\ \A imageFlags \in 0 .. 63 : SelectorOf(imageFlags)
                /\ \A k \in 1 .. Len(acq') :
                       (acq'[k].registered /\ acq'[k].ret # -1) =>
                           LET texture == FindTexture(textures, acq'[k].image)
                               binds == { p \in SubpassRange(cmds, k) :
                                             cmds[p].op = "bindTextures" }
                           IN  /\ Cardinality(binds) = 1
                               /\ \A p \in binds :
                                      /\ cmds[p].imageDescId = acq'[k].ret
                                      /\ cmds[p].imageDescId \in Slots
                                      /\ cmds[p].samplerId = SamplerId(texture.flags)
                                      /\ SelectorOf(texture.flags)
      ]_vars

\* A texture created with the repeat-x and nearest flags and flag 16 has
\* just been bound in slot 1 with selector 6, while a texture created with
\* the mipmap and repeat-y flags and flag 8 holds slot 0.
C32_FlaggedTextureInSecondSlot ==
    /\ pc = "wait"
    /\ queue # <<>>
    /\ drawn # nullptr
    /\ FindTexture(textures, drawn.image) # nullptr
    /\ FindTexture(textures, drawn.image).flags = 2 + 32 + 16
    /\ imageDescriptorMappings[1] = drawn.image
    /\ FindTexture(textures, imageDescriptorMappings[0]) # nullptr
    /\ FindTexture(textures, imageDescriptorMappings[0]).flags = 1 + 4 + 8
    /\ \E p \in DOMAIN DrawnCmds :
           /\ DrawnCmds[p].op = "bindTextures"
           /\ DrawnCmds[p].imageDescId = 1
           /\ DrawnCmds[p].samplerId = 6

----------------------------------------------------------------------------
\* C33: the block size Create stores in ctx->fragSize is the raw size of
\* the uniform record rounded up to a multiple of 4: the smallest multiple
\* of 4 that is not below the raw size (the raw size itself when that is a
\* multiple of 4).
C33_FragSizeIsRawSizeRoundedUp ==
    /\ ctx.fragSize % 4 = 0
    /\ ctx.fragSize >= SizeofFragUniforms
    /\ ctx.fragSize - 4 < SizeofFragUniforms

----------------------------------------------------------------------------
\* C34: whenever a texture bind is recorded for an image id with slot s,
\* slot s is mapped to that id, and the descriptor most recently written
\* into slot s by the commands recorded up to the bind is that of the
\* texture registered under the id, which is the only texture that ever had
\* the id.
C34_BoundSlotHoldsItsTexture ==
    [][ CallRecorded =>
            LET cmds == queue'[Len(queue')]
            IN  \A k \in 1 .. Len(acq') :
                    \A p \in SubpassRange(cmds, k) :
                        cmds[p].op = "bindTextures" =>
                            LET id == acq'[k].image
                                slot == cmds[p].imageDescId
                            IN  /\ slot \in Slots
                                /\ imageDescriptorMappings'[slot] = id
                                /\ DescriptorsAfter(imageDescriptorSet,
                                                    SubSeq(cmds, 1, p - 1))[slot] = id
                                /\ id \in RegisteredIds
                                /\ Cardinality({ n \in 1 .. Len(returnedIds) :
                                                     returnedIds[n] = id }) = 1
      ]_vars

\* A texture has just been bound in slot 0, which holds its descriptor,
\* while slot 1 is unmapped and still holds the descriptor of a deleted
\* texture.
C34_BoundBesideDeletedDescriptor ==
    /\ pc = "wait"
    /\ drawn # nullptr
    /\ drawn.image \in RegisteredIds
    /\ imageDescriptorMappings[0] = drawn.image
    /\ imageDescriptorSet[0] = drawn.image
    /\ imageDescriptorMappings[1] = 0
    /\ imageDescriptorSet[1] # 0
    /\ imageDescriptorSet[1] \notin RegisteredIds
    /\ \E p \in DOMAIN DrawnCmds :
           DrawnCmds[p].op = "bindTextures" /\ DrawnCmds[p].imageDescId = 0

----------------------------------------------------------------------------
\* C35: a miss in Acquire writes a slot that was unmapped (0) immediately
\* before the write; in particular it never overwrites a slot that is
\* mapped to a different registered texture.
C35_MissWritesUnmappedSlot ==
    [][ CallRecorded =>
            \A k \in 1 .. Len(acq') :
                acq'[k].miss =>
                    /\ imageDescriptorMappings[acq'[k].ret] = 0
                    /\ ~ ( /\ imageDescriptorMappings[acq'[k].ret] # acq'[k].image
                           /\ imageDescriptorMappings[acq'[k].ret] \in RegisteredIds )
      ]_vars

----------------------------------------------------------------------------
\* C36: among the slots 0 .. mark no two are mapped to the same non-zero
\* id, and every non-zero id mapped there is the id of a registered
\* texture; and when Acquire fails for a registered texture, every one of
\* the MaxImages slots is mapped to a registered texture.
C36_MarkedRangeIsClean ==
    [][ /\ \A s, t \in 0 .. lastImageDescriptor' :
               (s # t /\ imageDescriptorMappings'[s] # 0)
                   => imageDescriptorMappings'[s] # imageDescriptorMappings'[t]
        /\ \A s \in 0 .. lastImageDescriptor' :
               imageDescriptorMappings'[s] # 0
                   => imageDescriptorMappings'[s] \in
                          { textures'[k].id : k \in 1 .. Len(textures') }
        /\ CallRecorded =>
               \A k \in 1 .. Len(acq') :
                   (acq'[k].registered /\ acq'[k].ret = -1) =>
                       /\ lastImageDescriptor = MaxImages - 1
                       /\ \A s \in Slots :
                              imageDescriptorMappings[s] \in RegisteredIds
      ]_vars

\* Acquire has just failed for a registered texture after a texture was
\* deleted and its slot taken by a third: both slots are mapped to
\* registered textures, the lower one to a later id than the upper one.
C36_FailedOnFullTable ==
    /\ pc = "wait"
    /\ \E k \in 1 .. Len(acq) : acq[k].registered /\ acq[k].ret = -1
    /\ lastImageDescriptor = MaxImages - 1
    /\ imageDescriptorMappings[0] > imageDescriptorMappings[MaxImages - 1]
    /\ \A s \in Slots : imageDescriptorMappings[s] \in RegisteredIds

----------------------------------------------------------------------------
\* C37: an Acquire that returns -1 records no descriptor update and no
\* barrier (nor is a texture bound after it), and the call it was made in
\* leaves the slot mapping table and the mark as they were.
C37_FailedAcquireChangesNothing ==
    [][ CallRecorded =>
            LET cmds == queue'[Len(queue')]
            IN  \A k \in 1 .. Len(acq') :
                    (acq'[k].registered /\ acq'[k].ret = -1) =>
                        /\ ~acq'[k].miss
                        /\ \A p \in SubpassRange(cmds, k) :
                               cmds[p].op \notin { "updateDescriptor", "barrier",
                                                   "bindTextures" }
                        /\ imageDescriptorMappings' = imageDescriptorMappings
                        /\ lastImageDescriptor' = lastImageDescriptor
      ]_vars

\* A stroke call has just been submitted in which every Acquire for the
\* call's registered texture failed.
C37_StrokeWithoutSlot ==
    /\ pc = "wait"
    /\ drawn # nullptr
    /\ drawn.type = DKNVG_STROKE
    /\ drawn.image \in RegisteredIds
    /\ Len(acq) >= 2
    /\ \A k \in 1 .. Len(acq) : acq[k].registered /\ acq[k].ret = -1

----------------------------------------------------------------------------
\* C38: the size requested for the fragment uniform buffer is at least one
\* uniform block (fragSize = FragmentUniformSize), so every push of
\* fragSize bytes at offset 0 that SetUniforms records stays within the
\* size requested for the buffer.
C38_PushFitsRequestedSize ==
    /\ FragUniformBufferRequested >= FragmentUniformSize
    /\ FragUniformBufferRequested >= ctx.fragSize
    /\ \A n \in 1 .. Len(queue) :
           \A p \in 1 .. Len(queue[n]) :
               (queue[n][p].op = "pushConstants" /\ queue[n][p].buf = "fragUniformBuffer")
                   => queue[n][p].size <= FragUniformBufferRequested

----------------------------------------------------------------------------
\* C39: the mark lies in 0 .. MaxImages - 1, so the slots 0 .. mark that
\* Acquire and Release scan are entries of the table; the slot a miss
\* writes is an entry of the table; and every value Acquire returns is -1
\* or in 0 .. MaxImages - 1.
C39_IndicesInRange ==
    /\ DOMAIN imageDescriptorMappings = 0 .. MaxImages - 1
    /\ lastImageDescriptor \in 0 .. MaxImages - 1
    /\ \A desc \in 0 .. lastImageDescriptor : desc \in DOMAIN imageDescriptorMappings
    /\ \A k \in 1 .. Len(acq) :
           /\ acq[k].ret \in { -1 } \cup (0 .. MaxImages - 1)
           /\ acq[k].miss => acq[k].ret \in 0 .. MaxImages - 1
    /\ \A n \in 1 .. Len(queue) :
           \A p \in 1 .. Len(queue[n]) :
               queue[n][p].op = "updateDescriptor"
                   => queue[n][p].slot \in 0 .. MaxImages - 1

\* The mark is at the last slot of the table, every slot is mapped, and
\* the Acquire of a triangles call for another registered texture has just
\* returned -1.
C39_LastSlotTakenThenFailure ==
    /\ pc = "wait"
    /\ drawn # nullptr
    /\ drawn.type = DKNVG_TRIANGLES
    /\ lastImageDescriptor = MaxImages - 1
    /\ Len(acq) = 1
    /\ acq[1].registered /\ acq[1].ret = -1
    /\ \A s \in Slots : imageDescriptorMappings[s] # 0

----------------------------------------------------------------------------
\* C40: in a Fill call the fans are drawn under the uniform block at
\* uniformOffset bound with image id 0, for which no texture is looked up
\* successfully: no slot is acquired and no texture bind, descriptor update
\* or barrier is recorded for it.  Only the second bind, of the block at
\* uniformOffset + fragSize with the call's image, can acquire a slot, so
\* the call changes at most one entry of the slot table.
C40_FillAcquiresOnce ==
    [][ (CallRecorded /\ drawn'.type = DKNVG_FILL) =>
            LET cmds == queue'[Len(queue')]
                pos == SubpassPositions(cmds)
            IN  /\ Len(acq') = 2
                /\ Len(pos) = 2
                /\ acq'[1].image = 0
                /\ ~acq'[1].registered /\ acq'[1].ret = -1 /\ ~acq'[1].miss
                /\ cmds[pos[1] - 1].op = "pushConstants"
                /\ cmds[pos[1] - 1].src = drawn'.uniformOffset
                /\ \A p \in SubpassRange(cmds, 1) :
                       cmds[p].op \notin { "bindTextures", "updateDescriptor", "barrier" }
                /\ \A p \in 1 .. Len(cmds) :
                       (cmds[p].op = "draw" /\ cmds[p].prim = "TriangleFan")
                           => p \in SubpassRange(cmds, 1)
                /\ \E p \in SubpassRange(cmds, 1) :
                       cmds[p].op = "draw" /\ cmds[p].prim = "TriangleFan"
                /\ acq'[2].image = drawn'.image
                /\ cmds[pos[2] - 1].op = "pushConstants"
                /\ cmds[pos[2] - 1].src = drawn'.uniformOffset + ctx.fragSize
                /\ Cardinality({ p \in 1 .. Len(cmds) :
                                     cmds[p].op = "updateDescriptor" }) <= 1
                /\ Cardinality({ s \in Slots :
                                     imageDescriptorMappings'[s]
                                         # imageDescriptorMappings[s] }) <= 1
      ]_vars

\* A fill call with a registered texture has just been submitted: its first
\* bind acquired nothing and its second took slot 1 by a miss.
C40_FillTookSecondSlot ==
    /\ pc = "wait"
    /\ FillDrawn
    /\ Len(acq) = 2
    /\ ~acq[1].registered
    /\ acq[2].registered /\ acq[2].miss /\ acq[2].ret = 1
    /\ imageDescriptorMappings[1] = drawn.image

=============================================================================
